---- MODULE Spec2Model ----
(***************************************************************************)
(* Model of the privmsg relay server: the Redis-backed queue manager       *)
(* (package queue, Manager) and the HTTP / WebSocket gateway (package      *)
(* relay, Server).  Every Redis call is one atomic step; every HTTP        *)
(* handler and every WebSocket session is a process whose position is part *)
(* of the state, so handlers interleave at the granularity of single Redis *)
(* calls, lock operations and connection writes, as goroutines do.  The   *)
(* web client (WebSocketClient and the two receive paths of the message    *)
(* handler) is a process of its own, one step per run between two awaits.  *)
(***************************************************************************)
EXTENDS Integers, Sequences, FiniteSets, TLC

(***************************************************************************)
(* Bounds and scaled program constants.                                    *)
(***************************************************************************)

\* types.go:99 MaxMessagesInQueue = 1000, scaled down.
MaxMessagesInQueue == 3
\* types.go:100 MaxMessageSize = 4 MiB, scaled down (bytes).
MaxMessageSize == 3
\* part_002:185-187 the window limit 100, scaled down.
MaxWindowLimit == 3
\* Number of Store faults injected in one run of a fault specification.
MaxFaults == 1
\* types.go:97 QueueTTL = 7 days, scaled down (ticks of the clock).
QueueTTL == 2
\* types.go:98 MessageTTL = 24 hours, scaled down (ticks of the clock).
MessageTTL == 1
\* The clock stops after this many ticks.
MaxClock == 4

\* Queue handles and access tokens, in the order the random source yields them.
HandlePool == <<"hA", "hB">>
TokenPool == <<"tA", "tB">>
Handles == {HandlePool[i] : i \in 1..Len(HandlePool)}
\* "" is the absent / empty credential, "tX" a well-formed token never issued.
Tokens == {TokenPool[i] : i \in 1..Len(TokenPool)} \cup {"", "tX"}
NoQueue == "none"
NoSince == 0
\* A key written with expiration 0 has no TTL.
NoTTL == 0

Senders == {"s1", "s2", "s3"}
Readers == {"r1"}
Deleters == {"d1"}
Conns == {"c1", "c2"}

\* Payloads of send requests; the last one exceeds MaxMessageSize as scaled.
SmallPayloads == {<<1, 2, 3>>, <<9, 9>>}
BigPayload == <<0, 0, 0, 0>>

VARIABLES
    queueRec,       \* Redis "queue:{h}": TRUE iff the key holds a queue record
    tokenIdx,       \* Redis "token:{t}": the queue id stored, or NoQueue
    msgList,        \* Redis "queue:{h}:messages": the list of message ids
    msgRec,         \* Redis "message:{h}:{m}": the set of stored Message records
    created,        \* how many (handle, token) pairs the random source has issued
    nextId,         \* the next message id the random source issues
    faults,         \* Store faults still to be injected
    wsConnections,  \* Server.wsConnections: queue id -> slice of connections
    rlock,          \* the handlers that hold wsMutex.RLock
    ws,             \* per WebSocket session: its state and bookkeeping
    snd,            \* per send handler (handleSendMessage): its position
    rdr,            \* per receive handler (handleReceiveMessages): its position
    del,            \* per delete handler (handleDeleteQueue): its position
    now,            \* time.Now(), in ticks
    expiresAt,      \* Queue.ExpiresAt of the queue record created for each handle
    queueDue,       \* the time at which Redis expires "queue:{h}", or NoTTL
    hist,           \* history of what happened, read by the properties only
    crt,            \* the create handler (handleCreateQueue): its position
    keyDue,            \* the times at which Redis expires the token, message and list keys
    web             \* the web client: its WebSocketClient, its message store and its two receive paths

vars == <<queueRec, tokenIdx, msgList, msgRec, created, nextId, faults,
          wsConnections, rlock, ws, snd, rdr, del, now, expiresAt, queueDue, hist, web,
          crt, keyDue>>

storeVars == <<queueRec, tokenIdx, msgList, msgRec>>

timeVars == <<now, expiresAt, queueDue, keyDue>>

(***************************************************************************)
(* Sequence helpers.                                                       *)
(***************************************************************************)

Range(s) == {s[i] : i \in 1..Len(s)}

\* Index of the first occurrence of x in s, 0 if none.
IndexOf(s, x) ==
    IF x \in Range(s) THEN CHOOSE i \in 1..Len(s) : s[i] = x /\ \A j \in 1..(i-1) : s[j] # x
    ELSE 0

\* s without its element at position i.
RemoveAt(s, i) == SubSeq(s, 1, i-1) \o SubSeq(s, i+1, Len(s))

\* An LREM that removes nothing.
LRemNothing(s, x) == s

\* Redis LREM key 1 x: remove the first occurrence of x, if any.
LRem(s, x) == IF IndexOf(s, x) = 0 THEN s ELSE RemoveAt(s, IndexOf(s, x))

Max(a, b) == IF a >= b THEN a ELSE b

(***************************************************************************)
(* Initial state: a fresh Redis and a freshly constructed Server.          *)
(***************************************************************************)

\* A request body: whether it parses as JSON, whether the object has a
\* `payload` field, and the bytes of that field.
JsonBody(p) == [json |-> TRUE, hasPayload |-> TRUE, payload |-> p]
NoPayloadBody == [json |-> TRUE, hasPayload |-> FALSE, payload |-> <<>>]
GarbageBody == [json |-> FALSE, hasPayload |-> FALSE, payload |-> <<>>]

IdleSnd == [pc |-> "idle", q |-> NoQueue, body |-> JsonBody(<<>>), payload |-> <<>>, id |-> 0,
            conns |-> <<>>, i |-> 0, werr |-> FALSE, late |-> FALSE, timedOut |-> FALSE,
            err |-> "nil", status |-> 0]
\* What a polling client keeps of its previous Window: the id list that Window
\* read, how many messages it returned, its has_more and its `since`; `seen`
\* is history: how many messages had ever been appended when the list was read.
NoPrev == [polled |-> FALSE, ids |-> <<>>, n |-> 0, more |-> FALSE, since |-> NoSince,
           seen |-> 0]

IdleRdr == [pc |-> "idle", q |-> NoQueue, token |-> "", since |-> NoSince, query |-> 0,
            limit |-> 0, ids |-> <<>>, i |-> 0, pruned |-> {}, messages |-> <<>>,
            hasMore |-> FALSE, err |-> "nil", status |-> 0, last |-> NoSince,
            seen |-> 0, prev |-> NoPrev]
\* The create handler between requests; h and t are the ids it generated.
IdleCrt == [pc |-> "idle", h |-> NoQueue, t |-> ""]
IdleDel == [pc |-> "idle", q |-> NoQueue, token |-> "", ids |-> <<>>, err |-> "nil",
            status |-> 0]
NewWs == [state |-> "connect", subscribedQueues |-> {}, inbox |-> <<>>,
          writers |-> {}, raced |-> FALSE, pings |-> 0,
          pc |-> "read", q |-> NoQueue, token |-> "", id |-> 0]

\* The web client's view of one conversation: the ids the relay issues to it.
MaxWebMsgs == 2
WebIds == 1..MaxWebMsgs

\* WebSocketClient.maxReconnectAttempts, scaled down.
MaxReconnectAttempts == 2

\* db.messages: a row is known by its primary key, a random id that saveMessage
\* draws.  The key says which message the row is of and tells the rows of one
\* message apart: n = 0 is the row the push of the message added, n > 0 a row
\* a poll added.  The App holds at most MaxHeld rows at a time, so that at
\* most MaxKeys poll rows of one message exist or are held.
MaxHeld == 1
MaxKeys == MaxHeld + 2
NoKey == [id |-> 0, n |-> 0]

\* What a message in the queue is to the client: a text message, or one of
\* the control messages connection_accepted, conversation_deleted and
\* message_edit / message_delete.
Kinds == {"text", "accepted", "deleted", "edit"}

\* The runs of the receive paths: the poll, and the push of each message id.
Poller == 0
RunIds == {Poller} \cup WebIds

\* db.conversations has no row for the conversation.
NoRow == -1

\* A new WebSocketClient, the conversation as createInvite or acceptInvite
\* saved it, an empty message table and no receive path running.
NewWeb == [sock |-> "null",       \* this.ws: "null", or the readyState of the socket held
           closing |-> 0,         \* sockets disconnect() closed whose close event is due
           timer |-> FALSE,       \* reconnectTimer is pending
           attempts |-> 0,        \* reconnectAttempts
           subs |-> FALSE,        \* subscriptions holds the conversation's queue
           left |-> FALSE,        \* disconnect() has been called
           relaySub |-> FALSE,    \* the relay has the held socket in the queue's list
           sent |-> 0,            \* how many messages the peer has sent to the queue
           relay |-> {},          \* the ids the relay holds for the queue
           acked |-> {},          \* the ids for which an "ack" frame was sent
           kind |-> [m \in WebIds |-> "text"],  \* per id: what the payload is
           run |-> [t \in RunIds |->           \* per run: where it is, and what it holds:
                      [pc |-> IF t = Poller THEN "idle" ELSE "none",
                       copy |-> 0,             \* the conversation row read for a put
                       row |-> NoKey]],        \* the message row read for a put
           poll |-> [n |-> 0,     \* the poll: `since`, then the last id of the batch
                     todo |-> {}, \* the messages the loop has yet to reach
                     cur |-> 0,   \* the message of the current iteration
                     acc |-> FALSE],  \* connectionAcceptedProcessed
           rows |-> {},           \* db.messages: the keys of the rows of received messages
           conv |-> NoSince,      \* db.conversations: NoRow, or lastReceivedMessageId
           del |-> "idle",        \* deleteConversation: where it is
           reset |-> FALSE,       \* resetConversationSync holds the row
           touch |-> NoRow,       \* the row held by markConversationAsRead or saveMessage
           held |-> {}]           \* the message rows the App holds for a put

InitHist == [appended |-> [h \in Handles |-> <<>>],
             peak |-> [h \in Handles |-> 0],
             deleted |-> {},
             acked |-> {},
             subs |-> [c \in Conns |-> {}],
             presented |-> [c \in Conns |-> {}],
             detached |-> [c \in Conns |-> {}],
             createStatus |-> 0,
             shutdown |-> FALSE,        \* main: server.Shutdown has returned
             redisClosed |-> FALSE,     \* main: redisClient.Close() has returned
             exited |-> FALSE,          \* main: os.Exit(0)
             invoked |-> [h \in Handles |-> <<>>]]

InitWith(f) ==
    /\ queueRec = [h \in Handles |-> FALSE]
    /\ tokenIdx = [t \in Tokens |-> NoQueue]
    /\ msgList = [h \in Handles |-> <<>>]
    /\ msgRec = {}
    /\ created = 0
    /\ nextId = 1
    /\ faults = f
    /\ wsConnections = [h \in Handles |-> <<>>]
    /\ rlock = {}
    /\ ws = [c \in Conns |-> NewWs]
    /\ snd = [s \in Senders |-> IdleSnd]
    /\ rdr = [r \in Readers |-> IdleRdr]
    /\ del = [d \in Deleters |-> IdleDel]
    /\ now = 0
    /\ expiresAt = [h \in Handles |-> 0]
    /\ queueDue = [h \in Handles |-> NoTTL]
    /\ hist = InitHist
    /\ web = NewWeb
    /\ crt = IdleCrt
    /\ keyDue = [token |-> [t \in Tokens |-> NoTTL], list |-> [h \in Handles |-> NoTTL],
              msg |-> <<>>]

Init == InitWith(0)
InitFaulty == InitWith(MaxFaults)

(***************************************************************************)
(* Store faults: a Redis call may fail while the fault budget lasts, and    *)
(* every call fails ("redis: client is closed") once main has closed the   *)
(* client.                                                                 *)
(***************************************************************************)

CanFail == hist.redisClosed \/ faults > 0
Fail == faults' = IF hist.redisClosed THEN faults ELSE faults - 1
NoFail == ~hist.redisClosed /\ faults' = faults

(***************************************************************************)
(* The HTTP gateway: the status each handler answers for the error the      *)
(* Manager call returned ("nil": no error; "ErrStore": any wrapped error).  *)
(***************************************************************************)

CreateStatus(e) == IF e = "nil" THEN 201 ELSE 500

SendStatus(e) ==
    CASE e = "nil" -> 201
      [] e = "ErrQueueNotFound" -> 404
      [] e = "ErrQueueFull" -> 429
      [] e = "ErrMessageTooLarge" -> 413
      [] OTHER -> 500

ReceiveStatus(e) ==
    CASE e = "nil" -> 200
      [] e = "ErrQueueNotFound" -> 404
      [] e = "ErrInvalidAccessToken" -> 401
      [] OTHER -> 500

DeleteStatus(e) ==
    CASE e = "nil" -> 204
      [] e = "ErrQueueNotFound" -> 404
      [] e = "ErrInvalidAccessToken" -> 401
      [] OTHER -> 500

(***************************************************************************)
(* Manager.CreateQueue (handleCreateQueue).                                *)
(***************************************************************************)

\* generateRandomID twice (the next unused handle and token of the pools),
\* time.Now(), then SET queue:{h} with the marshalled record and QueueTTL.
CreateSetQueue(maxQ) ==
    /\ crt.pc = "idle"
    /\ created < maxQ
    /\ created < Len(HandlePool)
    /\ LET h == HandlePool[created + 1]
           t == TokenPool[created + 1]
       IN  /\ created' = created + 1
           /\ \/ \* the SET succeeds
                 /\ queueRec' = [queueRec EXCEPT ![h] = TRUE]
                 /\ expiresAt' = [expiresAt EXCEPT ![h] = now + QueueTTL]
                 /\ queueDue' = [queueDue EXCEPT ![h] = now + QueueTTL]
                 /\ crt' = [pc |-> "setToken", h |-> h, t |-> t]
                 /\ NoFail
                 /\ UNCHANGED hist
              \/ \* the SET fails: 500, nothing stored
                 /\ CanFail /\ Fail
                 /\ hist' = [hist EXCEPT !.createStatus = CreateStatus("ErrStore")]
                 /\ UNCHANGED <<queueRec, expiresAt, queueDue, crt>>
    /\ UNCHANGED <<web, now, keyDue, tokenIdx, msgList, msgRec, nextId, wsConnections, rlock, ws,
                   snd, rdr, del>>

\* SET token:{t} with the handle and QueueTTL, then the response.
CreateSetToken ==
    /\ crt.pc = "setToken"
    /\ \/ \* the SET succeeds: 201
          /\ tokenIdx' = [tokenIdx EXCEPT ![crt.t] = crt.h]
          /\ keyDue' = [keyDue EXCEPT !.token[crt.t] = now + QueueTTL]
          /\ hist' = [hist EXCEPT !.createStatus = CreateStatus("nil")]
          /\ NoFail
       \/ \* the SET fails after the queue record was stored: 500
          /\ CanFail /\ Fail
          /\ hist' = [hist EXCEPT !.createStatus = CreateStatus("ErrStore")]
          /\ UNCHANGED <<tokenIdx, keyDue>>
    /\ crt' = IdleCrt
    /\ UNCHANGED <<web, now, expiresAt, queueDue, queueRec, msgList, msgRec, created, nextId,
                   wsConnections, rlock, ws, snd, rdr, del>>

\* One create request at a time, of at most maxQ.
CreateQueue(maxQ) == CreateSetQueue(maxQ) \/ CreateSetToken

(***************************************************************************)
(* handleSendMessage: Manager.SendMessage, then Server.notifySubscribers.  *)
(***************************************************************************)

SndDone(s, code) == [snd[s] EXCEPT !.pc = "done", !.status = code]

\* SendMessage returned e: the handler answers with the status of e.
SndReturn(s, e) == [SndDone(s, SendStatus(e)) EXCEPT !.err = e]

\* Senders that are inside Manager.SendMessage on queue h.
InAppend(h) == {s \in Senders : snd[s].q = h /\ snd[s].pc \in {"count", "setMsg", "rpush", "expire", "update"}}

\* A size check that also rejects a payload of exactly MaxMessageSize bytes.
TooLargeIncl(p) == Len(p) >= MaxMessageSize

\* "if len(payload) > MaxMessageSize { return nil, ErrMessageTooLarge }"
TooLarge(p) == Len(p) > MaxMessageSize

\* SendMessage is called with the request req; it checks the payload size and
\* reads the queue record.
SendCall(s, req, maxM) ==
    /\ snd[s].pc \in {"idle", "done"}
    /\ nextId + Cardinality({x \in Senders : snd[x].pc = "count"}) <= maxM
    /\ LET h == req.q
           p == req.payload
           return(e) == [req EXCEPT !.pc = "done", !.err = e, !.status = SendStatus(e)]
       IN  \/ /\ TooLarge(p)
              /\ snd' = [snd EXCEPT ![s] = return("ErrMessageTooLarge")]
              /\ UNCHANGED <<faults, hist>>
           \/ /\ ~TooLarge(p)
              /\ CanFail /\ Fail
              /\ snd' = [snd EXCEPT ![s] = return("ErrStore")]
              /\ UNCHANGED hist
           \/ /\ ~TooLarge(p)
              /\ ~queueRec[h]
              /\ snd' = [snd EXCEPT ![s] = return("ErrQueueNotFound")]
              /\ NoFail
              /\ UNCHANGED hist
           \/ /\ ~TooLarge(p)
              /\ queueRec[h]
              /\ snd' = [snd EXCEPT ![s] = [req EXCEPT !.pc = "count"]]
              /\ hist' = [hist EXCEPT !.peak[h] = Max(@, Cardinality(InAppend(h) \cup {s}))]
              /\ NoFail
    /\ UNCHANGED <<web, crt, timeVars, storeVars, created, nextId, wsConnections, rlock, ws, rdr, del>>

\* Manager.SendMessage(h, p) is called.
SendBegin(s, h, p, maxM) ==
    SendCall(s, [IdleSnd EXCEPT !.q = h, !.body = JsonBody(p), !.payload = p,
                                !.late = h \in hist.deleted], maxM)

\* json.Decode into SendMessageRequest: a missing `payload` leaves Payload nil.
DecodedPayload(b) == IF b.hasPayload THEN b.payload ELSE <<>>

\* handleSendMessage: a body that does not parse is answered 400; otherwise
\* SendMessage is called with the decoded payload.
HandleSend(s, h, b, maxM) ==
    IF b.json
    THEN SendCall(s, [IdleSnd EXCEPT !.q = h, !.body = b, !.payload = DecodedPayload(b),
                                     !.late = h \in hist.deleted], maxM)
    ELSE /\ snd[s].pc \in {"idle", "done"}
         /\ snd' = [snd EXCEPT ![s] = [IdleSnd EXCEPT !.q = h, !.body = b, !.pc = "done",
                                                      !.err = "ErrDecode", !.status = 400]]
         /\ UNCHANGED <<web, crt, timeVars, storeVars, created, nextId, faults, wsConnections, rlock,
                        ws, rdr, del, hist>>

\* A queue-full check that is off by one.
QueueOverFull(count) == count > MaxMessagesInQueue

\* A queue-full check that rejects one message early.
QueueNearlyFull(count) == count >= MaxMessagesInQueue - 1

\* getMessageCount (LLEN) and the queue-full check, then generateRandomID(16).
QueueFull(count) == count >= MaxMessagesInQueue

SendCount(s) ==
    /\ snd[s].pc = "count"
    /\ \/ /\ CanFail /\ Fail
          /\ snd' = [snd EXCEPT ![s] = SndReturn(s, "ErrStore")]
          /\ UNCHANGED nextId
       \/ /\ QueueFull(Len(msgList[snd[s].q]))
          /\ snd' = [snd EXCEPT ![s] = SndReturn(s, "ErrQueueFull")]
          /\ NoFail
          /\ UNCHANGED nextId
       \/ /\ ~QueueFull(Len(msgList[snd[s].q]))
          /\ snd' = [snd EXCEPT ![s] = [@ EXCEPT !.pc = "setMsg", !.id = nextId]]
          /\ nextId' = nextId + 1
          /\ NoFail
    /\ UNCHANGED <<web, crt, timeVars, storeVars, created, wsConnections, rlock, ws, rdr, del, hist>>

\* SET message:{h}:{m} with the marshalled Message.
MessageOf(s) == [id |-> snd[s].id, queue |-> snd[s].q, payload |-> snd[s].payload]

SendSetMsg(s) ==
    /\ snd[s].pc = "setMsg"
    /\ \/ /\ CanFail /\ Fail
          /\ snd' = [snd EXCEPT ![s] = [SndReturn(s, "ErrStore") EXCEPT !.werr = TRUE]]
          /\ UNCHANGED <<msgRec, keyDue>>
       \/ /\ msgRec' = msgRec \cup {MessageOf(s)}
          /\ keyDue' = [keyDue EXCEPT !.msg = (snd[s].id :> now + MessageTTL) @@ @]
          /\ snd' = [snd EXCEPT ![s].pc = "rpush"]
          /\ NoFail
    /\ UNCHANGED <<web, crt, now, expiresAt, queueDue, queueRec, tokenIdx, msgList, created, nextId, wsConnections, rlock,
                   ws, rdr, del, hist>>

\* LPUSH instead of RPUSH.
ListPrepend(list, m) == <<m>> \o list

\* RPUSH queue:{h}:messages m. An RPUSH on a key that does not exist creates it
\* with no expiration; on an existing list it leaves the expiration alone.
ListAppend(list, m) == Append(list, m)

SendRPush(s) ==
    /\ snd[s].pc = "rpush"
    /\ LET h == snd[s].q
           m == snd[s].id
       IN  \/ /\ CanFail /\ Fail
              /\ snd' = [snd EXCEPT ![s] = [SndReturn(s, "ErrStore") EXCEPT !.werr = TRUE]]
              /\ UNCHANGED <<msgList, hist, keyDue>>
           \/ /\ msgList' = [msgList EXCEPT ![h] = ListAppend(@, m)]
              /\ keyDue' = [keyDue EXCEPT !.list[h] = IF msgList[h] = <<>> THEN NoTTL ELSE @]
              /\ hist' = [hist EXCEPT !.appended[h] = Append(@, MessageOf(s))]
              /\ snd' = [snd EXCEPT ![s].pc = "expire"]
              /\ NoFail
    /\ UNCHANGED <<web, crt, now, expiresAt, queueDue, queueRec, tokenIdx, msgRec, created, nextId,
                   wsConnections, rlock, ws, rdr, del>>

\* EXPIRE queue:{h}:messages QueueTTL, a call of its own whose result is
\* dropped: on a key that no longer exists it does nothing.
SendExpire(s) ==
    /\ snd[s].pc = "expire"
    /\ LET h == snd[s].q
       IN  \/ /\ CanFail /\ Fail
              /\ snd' = [snd EXCEPT ![s] = [@ EXCEPT !.pc = "update", !.werr = TRUE]]
              /\ UNCHANGED keyDue
           \/ /\ keyDue' = [keyDue EXCEPT !.list[h] = IF msgList[h] = <<>> THEN @ ELSE now + QueueTTL]
              /\ snd' = [snd EXCEPT ![s].pc = "update"]
              /\ NoFail
    /\ UNCHANGED <<web, crt, now, expiresAt, queueDue, storeVars, created, nextId,
                   wsConnections, rlock, ws, rdr, del, hist>>

\* updateQueue's expiration: "ttl := time.Until(queue.ExpiresAt); if ttl < 0
\* { ttl = QueueTTL }".
UpdateTTL(h) == IF expiresAt[h] - now < 0 THEN QueueTTL ELSE expiresAt[h] - now

\* The time at which a key SET at `now` with expiration ttl expires.
DueAfter(ttl) == IF ttl = 0 THEN NoTTL ELSE now + ttl

\* updateQueue: SET queue:{h} with the record read by getQueue; its error is
\* dropped and SendMessage returns the response.
SendUpdate(s) ==
    /\ snd[s].pc = "update"
    /\ \/ /\ CanFail /\ Fail
          /\ snd' = [snd EXCEPT ![s] = [@ EXCEPT !.pc = "notify", !.werr = TRUE]]
          /\ UNCHANGED <<queueRec, queueDue>>
       \/ /\ queueRec' = [queueRec EXCEPT ![snd[s].q] = TRUE]
          /\ queueDue' = [queueDue EXCEPT ![snd[s].q] = DueAfter(UpdateTTL(snd[s].q))]
          /\ snd' = [snd EXCEPT ![s].pc = "notify"]
          /\ NoFail
    /\ UNCHANGED <<web, crt, keyDue, now, expiresAt, tokenIdx, msgList, msgRec, created, nextId, wsConnections, rlock,
                   ws, rdr, del, hist>>

\* The notification frame built by notifySubscribers.
Notification(s) == [type |-> "message", queue_id |-> snd[s].q, message_id |-> snd[s].id,
                    payload |-> snd[s].payload]
Garbled == [type |-> "garbled", queue_id |-> NoQueue, message_id |-> 0, payload |-> <<>>]
Pong == [type |-> "pong", queue_id |-> NoQueue, message_id |-> 0, payload |-> <<>>]

\* wsMutex.RLock and the read of wsConnections[queueID]; with no subscriber the
\* function returns at once (the deferred RUnlock runs) and the handler answers 201.
NotifyLock(s) ==
    /\ snd[s].pc = "notify"
    /\ LET cs == wsConnections[snd[s].q]
       IN  IF Len(cs) = 0
           THEN /\ snd' = [snd EXCEPT ![s] = SndReturn(s, "nil")]
                /\ UNCHANGED rlock
           ELSE /\ snd' = [snd EXCEPT ![s] = [@ EXCEPT !.pc = "write", !.conns = cs, !.i = 1]]
                /\ rlock' = rlock \cup {s}
    /\ hist' = [hist EXCEPT !.invoked[snd[s].q] = Append(@, snd[s].id)]
    /\ UNCHANGED <<web, crt, timeVars, storeVars, created, nextId, faults, wsConnections, ws, rdr, del>>

\* conn.WriteJSON starts: the writer is now inside the connection's write path.
BeginWrite(c, w) ==
    [ws EXCEPT ![c] = [@ EXCEPT !.writers = @ \cup {w},
                                !.raced = @ \/ ws[c].writers # {}]]

NotifyWriteBegin(s) ==
    /\ snd[s].pc = "write"
    /\ ws' = BeginWrite(snd[s].conns[snd[s].i], s)
    /\ snd' = [snd EXCEPT ![s].pc = "writing"]
    /\ UNCHANGED <<web, crt, timeVars, storeVars, created, nextId, faults, wsConnections, rlock, rdr, del, hist>>

\* The state of connection c after writer w has left the write path, with the
\* frames in `got` received by the peer.
EndWrite(c, w, got) ==
    [ws EXCEPT ![c] = [@ EXCEPT !.writers = @ \ {w},
                                !.raced = @ /\ (ws[c].writers \ {w}) # {},
                                !.inbox = @ \o got]]

\* A broadcaster that gives up after its first write.
SndStop(s) ==
    /\ snd' = [snd EXCEPT ![s] = SndReturn(s, "nil")]
    /\ rlock' = rlock \ {s}

\* After the write on conns[i]: the next subscriber, or RUnlock and 201.
SndAdvance(s) ==
    IF snd[s].i < Len(snd[s].conns)
    THEN /\ snd' = [snd EXCEPT ![s] = [@ EXCEPT !.pc = "write", !.i = @ + 1]]
         /\ UNCHANGED rlock
    ELSE /\ snd' = [snd EXCEPT ![s] = SndReturn(s, "nil")]
         /\ rlock' = rlock \ {s}

\* conn.WriteJSON returns.  A write to a connection whose peer is gone fails and
\* is logged.  A write that overlapped another write on the same connection is a
\* data race in gorilla/websocket: the frame may arrive, arrive corrupted, or the
\* library panics, which chi's Recoverer turns into a 500 after the deferred
\* RUnlock.
NotifyWriteEnd(s) ==
    /\ snd[s].pc = "writing"
    /\ ws[snd[s].conns[snd[s].i]].state # "stalled"
    /\ LET c == snd[s].conns[snd[s].i]
       IN  \/ /\ ws[c].state # "open"
              /\ ws' = EndWrite(c, s, <<>>)
              /\ SndAdvance(s)
           \/ /\ ws[c].state = "open"
              /\ ws' = EndWrite(c, s, <<Notification(s)>>)
              /\ SndAdvance(s)
           \/ /\ ws[c].state = "open" /\ ws[c].raced
              /\ ws' = EndWrite(c, s, <<Garbled>>)
              /\ SndAdvance(s)
           \/ /\ ws[c].state = "open" /\ ws[c].raced
              /\ ws' = EndWrite(c, s, <<>>)
              /\ snd' = [snd EXCEPT ![s] = SndDone(s, 500)]
              /\ rlock' = rlock \ {s}
    /\ UNCHANGED <<web, crt, timeVars, storeVars, created, nextId, faults, wsConnections, rdr, del, hist>>

(***************************************************************************)
(* handleReceiveMessages: Manager.ReceiveMessages.                         *)
(***************************************************************************)

\* A verifyAccessToken that only checks that the token is known.
TokenKnown(h, t) == tokenIdx[t] # NoQueue

\* verifyAccessToken's answer when GET token:{t} does not fail.
TokenValid(h, t) == tokenIdx[t] # NoQueue /\ tokenIdx[t] = h

RdrDone(r, code) == [rdr[r] EXCEPT !.pc = "done", !.status = code]

\* ReceiveMessages returned e: the handler answers with the status of e.
RdrReturn(r, e) == [RdrDone(r, ReceiveStatus(e)) EXCEPT !.err = e]

\* ReceiveMessages is called with the request req; it verifies the access token.
RecvCall(r, req) ==
    /\ rdr[r].pc \in {"idle", "done"}
    /\ LET return(e) == [req EXCEPT !.pc = "done", !.err = e, !.status = ReceiveStatus(e)]
       IN  \/ /\ CanFail /\ Fail
              /\ rdr' = [rdr EXCEPT ![r] = return("ErrStore")]
           \/ /\ ~TokenValid(req.q, req.token)
              /\ rdr' = [rdr EXCEPT ![r] = return("ErrInvalidAccessToken")]
              /\ NoFail
           \/ /\ TokenValid(req.q, req.token)
              /\ rdr' = [rdr EXCEPT ![r] = [req EXCEPT !.pc = "lrange"]]
              /\ NoFail
    /\ UNCHANGED <<web, crt, timeVars, storeVars, created, nextId, wsConnections, rlock, ws, snd, del, hist>>

\* Manager.ReceiveMessages(h, t, since, limit) is called.
RecvBegin(r, h, t, since, limit) ==
    RecvCall(r, [IdleRdr EXCEPT !.q = h, !.token = t, !.since = since, !.query = limit,
                                !.limit = limit])

\* handleReceiveMessages: "limit := 100 // Default limit"; the `limit` query
\* parameter of the request is not read.
HandlerLimit == MaxWindowLimit

HandleReceive(r, h, t, since, query) ==
    RecvCall(r, [IdleRdr EXCEPT !.q = h, !.token = t, !.since = since, !.query = query,
                                !.limit = HandlerLimit])

\* What the client's poll path wrote to lastReceivedMessageId: the id of the
\* last message the previous Window returned, kept when it returned nothing.
LastPolled(r) ==
    IF rdr[r].messages # <<>> THEN rdr[r].messages[Len(rdr[r].messages)].id ELSE rdr[r].last

\* The values the client's lastReceivedMessageId may hold: what the poll path
\* wrote, or the id of a message of h that was pushed to the client, which the
\* push path writes when it has saved the message; the two paths are not
\* serialised, so the last writer may be either.
Observed(r, h) ==
    {LastPolled(r)} \cup
    ({x.id : x \in Range(hist.appended[h])}
        \ {snd[s].id : s \in {x \in Senders : snd[x].pc \in {"expire", "update", "notify"}}})

\* A polling client calls Window again after its previous Window succeeded,
\* with since = lastReceivedMessageId or without `since`.
Poll(r, h, t, since, limit) ==
    /\ rdr[r].pc = "idle" \/ (rdr[r].pc = "done" /\ rdr[r].status = 200)
    /\ since \in Observed(r, h) \cup {NoSince}
    /\ RecvCall(r, [IdleRdr EXCEPT
                       !.q = h, !.token = t, !.query = limit, !.limit = limit,
                       !.since = since,
                       !.last = LastPolled(r),
                       !.prev = IF rdr[r].pc = "done"
                                THEN [polled |-> TRUE, ids |-> rdr[r].ids,
                                      n |-> Len(rdr[r].messages), more |-> rdr[r].hasMore,
                                      since |-> rdr[r].since, seen |-> rdr[r].seen]
                                ELSE NoPrev])

\* "if limit == 0 || limit > 100 { limit = 100 }"
NormLimit(l) == IF l = 0 \/ l > MaxWindowLimit THEN MaxWindowLimit ELSE l

\* A strict `since`: an id that is not in the list selects nothing.
StartPosStrict(ids, since) ==
    IF since = NoSince THEN 1
    ELSE IF since \in Range(ids) THEN IndexOf(ids, since) + 1 ELSE Len(ids) + 1

\* A `since` that is itself collected again.
StartPosAtSince(ids, since) ==
    IF since = NoSince \/ since \notin Range(ids) THEN 1 ELSE IndexOf(ids, since)

\* The position of ids at which the second loop starts to collect: the first
\* pass sets sinceFound when `since` is empty or not in the list, otherwise the
\* loop skips up to and including the entry equal to `since`.
StartPos(ids, since) ==
    IF since = NoSince \/ since \notin Range(ids) THEN 1 ELSE IndexOf(ids, since) + 1

\* LRANGE queue:{h}:messages 0 -1, the limit default and the search for `since`.
RecvLRange(r) ==
    /\ rdr[r].pc = "lrange"
    /\ \/ /\ CanFail /\ Fail
          /\ rdr' = [rdr EXCEPT ![r] = RdrReturn(r, "ErrStore")]
       \/ /\ LET ids == msgList[rdr[r].q]
             IN rdr' = [rdr EXCEPT ![r] = [@ EXCEPT !.pc = "loop", !.ids = ids,
                                                    !.limit = NormLimit(@),
                                                    !.seen = Len(hist.appended[rdr[r].q]),
                                                    !.i = StartPos(ids, rdr[r].since)]]
          /\ NoFail
    /\ UNCHANGED <<web, crt, timeVars, storeVars, created, nextId, wsConnections, rlock, ws, snd, del, hist>>

\* The loop is over: the ids are exhausted or `limit` messages are collected.
LoopOver(r) == rdr[r].i > Len(rdr[r].ids) \/ Len(rdr[r].messages) >= rdr[r].limit

\* A GET that never finds the record.
StoredNone(h, m) == {}

\* A key pattern that matches every message of the queue.
StoredAny(h, m) == {x \in msgRec : x.queue = h}

\* The stored record of message m of queue h, as a set (empty: GET answers Nil).
Stored(h, m) == {x \in msgRec : x.queue = h /\ x.id = m}

\* A has_more that is true whenever the limit was reached.
MoreAtLimit(i, ids, n, limit) == n >= limit

\* "if i < len(messageIDs)-1 && len(messages) >= limit": return HasMore true.
MoreAfter(i, ids, n, limit) == i < Len(ids) /\ n >= limit

\* One iteration: GET message:{h}:{id}.
RecvGet(r) ==
    /\ rdr[r].pc = "loop"
    /\ ~LoopOver(r)
    /\ LET h == rdr[r].q
           m == rdr[r].ids[rdr[r].i]
       IN  \/ /\ CanFail /\ Fail
              /\ rdr' = [rdr EXCEPT ![r] = RdrReturn(r, "ErrStore")]
           \/ /\ Stored(h, m) = {}
              /\ rdr' = [rdr EXCEPT ![r] = [@ EXCEPT !.pc = "lrem", !.pruned = @ \cup {m}]]
              /\ NoFail
           \/ /\ Stored(h, m) # {}
              /\ NoFail
              /\ LET msgs == Append(rdr[r].messages, CHOOSE x \in Stored(h, m) : TRUE)
                 IN  IF MoreAfter(rdr[r].i, rdr[r].ids, Len(msgs), rdr[r].limit)
                     THEN rdr' = [rdr EXCEPT ![r] = [RdrReturn(r, "nil") EXCEPT
                                                     !.messages = msgs, !.hasMore = TRUE]]
                     ELSE rdr' = [rdr EXCEPT ![r] = [@ EXCEPT !.messages = msgs, !.i = @ + 1]]
    /\ UNCHANGED <<web, crt, timeVars, storeVars, created, nextId, wsConnections, rlock, ws, snd, del, hist>>

\* The record was missing: LREM queue:{h}:messages 1 id (result dropped), continue.
RecvLRem(r) ==
    /\ rdr[r].pc = "lrem"
    /\ \/ /\ CanFail /\ Fail
          /\ UNCHANGED msgList
       \/ /\ msgList' = [msgList EXCEPT ![rdr[r].q] = LRem(@, rdr[r].ids[rdr[r].i])]
          /\ NoFail
    /\ rdr' = [rdr EXCEPT ![r] = [@ EXCEPT !.pc = "loop", !.i = @ + 1]]
    /\ UNCHANGED <<web, crt, timeVars, queueRec, tokenIdx, msgRec, created, nextId, wsConnections, rlock,
                   ws, snd, del, hist>>

\* After the loop: getQueue; a missing record (or an error) skips the update.
RecvGetQueue(r) ==
    /\ rdr[r].pc = "loop"
    /\ LoopOver(r)
    /\ \/ /\ CanFail /\ Fail
          /\ rdr' = [rdr EXCEPT ![r] = RdrReturn(r, "nil")]
       \/ /\ ~queueRec[rdr[r].q]
          /\ rdr' = [rdr EXCEPT ![r] = RdrReturn(r, "nil")]
          /\ NoFail
       \/ /\ queueRec[rdr[r].q]
          /\ rdr' = [rdr EXCEPT ![r].pc = "update"]
          /\ NoFail
    /\ UNCHANGED <<web, crt, timeVars, storeVars, created, nextId, wsConnections, rlock, ws, snd, del, hist>>

\* updateQueue (error dropped), then the response with HasMore false.
RecvUpdate(r) ==
    /\ rdr[r].pc = "update"
    /\ \/ /\ CanFail /\ Fail
          /\ UNCHANGED <<queueRec, queueDue>>
       \/ /\ queueRec' = [queueRec EXCEPT ![rdr[r].q] = TRUE]
          /\ queueDue' = [queueDue EXCEPT ![rdr[r].q] = DueAfter(UpdateTTL(rdr[r].q))]
          /\ NoFail
    /\ rdr' = [rdr EXCEPT ![r] = RdrReturn(r, "nil")]
    /\ UNCHANGED <<web, crt, keyDue, now, expiresAt, tokenIdx, msgList, msgRec, created, nextId, wsConnections, rlock,
                   ws, snd, del, hist>>

(***************************************************************************)
(* handleDeleteQueue: Manager.DeleteQueue.                                 *)
(***************************************************************************)

DelBegin(d, h, t) ==
    /\ del[d].pc \in {"idle", "done"}
    /\ LET req == [IdleDel EXCEPT !.q = h, !.token = t]
       IN  \/ /\ CanFail /\ Fail
              /\ del' = [del EXCEPT ![d] = [req EXCEPT !.pc = "done", !.err = "ErrStore",
                                                       !.status = DeleteStatus("ErrStore")]]
           \/ /\ ~TokenValid(h, t)
              /\ del' = [del EXCEPT ![d] = [req EXCEPT !.pc = "done",
                                                       !.err = "ErrInvalidAccessToken",
                                                       !.status = DeleteStatus("ErrInvalidAccessToken")]]
              /\ NoFail
           \/ /\ TokenValid(h, t)
              /\ del' = [del EXCEPT ![d] = [req EXCEPT !.pc = "lrange"]]
              /\ NoFail
    /\ UNCHANGED <<web, crt, timeVars, storeVars, created, nextId, wsConnections, rlock, ws, snd, rdr, hist>>

\* LRANGE of the id list; an error is dropped and leaves no ids to delete.
DelLRange(d) ==
    /\ del[d].pc = "lrange"
    /\ \/ /\ CanFail /\ Fail
          /\ del' = [del EXCEPT ![d].pc = "delMsgs"]
       \/ /\ del' = [del EXCEPT ![d] = [@ EXCEPT !.pc = "delMsgs", !.ids = msgList[del[d].q]]]
          /\ NoFail
    /\ UNCHANGED <<web, crt, timeVars, storeVars, created, nextId, wsConnections, rlock, ws, snd, rdr, hist>>

\* DEL message:{h}:{id} for the next id read (error dropped).
DelMsg(d) ==
    /\ del[d].pc = "delMsgs"
    /\ del[d].ids # <<>>
    /\ \/ /\ CanFail /\ Fail
          /\ UNCHANGED msgRec
       \/ /\ msgRec' = msgRec \ Stored(del[d].q, Head(del[d].ids))
          /\ NoFail
    /\ del' = [del EXCEPT ![d].ids = Tail(@)]
    /\ UNCHANGED <<web, crt, timeVars, queueRec, tokenIdx, msgList, created, nextId, wsConnections, rlock,
                   ws, snd, rdr, hist>>

\* DEL queue:{h}:messages (error dropped).
DelList(d) ==
    /\ del[d].pc = "delMsgs"
    /\ del[d].ids = <<>>
    /\ \/ /\ CanFail /\ Fail
          /\ UNCHANGED msgList
       \/ /\ msgList' = [msgList EXCEPT ![del[d].q] = <<>>]
          /\ NoFail
    /\ del' = [del EXCEPT ![d].pc = "delQueue"]
    /\ UNCHANGED <<web, crt, timeVars, queueRec, tokenIdx, msgRec, created, nextId, wsConnections, rlock,
                   ws, snd, rdr, hist>>

\* DEL queue:{h} (error dropped).
DelQueueRec(d) ==
    /\ del[d].pc = "delQueue"
    /\ \/ /\ CanFail /\ Fail
          /\ UNCHANGED queueRec
       \/ /\ queueRec' = [queueRec EXCEPT ![del[d].q] = FALSE]
          /\ NoFail
    /\ del' = [del EXCEPT ![d].pc = "delToken"]
    /\ UNCHANGED <<web, crt, timeVars, tokenIdx, msgList, msgRec, created, nextId, wsConnections, rlock,
                   ws, snd, rdr, hist>>

\* A DEL of the first token issued, whatever token was presented.
TokenKeyFirst(d) == TokenPool[1]

\* tokenKey := "token:" + accessToken, the token the caller presented.
TokenKey(d) == del[d].token

\* DEL token:{t} (error dropped); DeleteQueue returns nil and the handler 204.
DelToken(d) ==
    /\ del[d].pc = "delToken"
    /\ \/ /\ CanFail /\ Fail
          /\ UNCHANGED tokenIdx
       \/ /\ tokenIdx' = [tokenIdx EXCEPT ![TokenKey(d)] = NoQueue]
          /\ NoFail
    /\ del' = [del EXCEPT ![d] = [@ EXCEPT !.pc = "done", !.status = DeleteStatus("nil")]]
    /\ hist' = [hist EXCEPT !.deleted = @ \cup {del[d].q}]
    /\ UNCHANGED <<web, crt, timeVars, queueRec, msgList, msgRec, created, nextId, wsConnections, rlock,
                   ws, snd, rdr>>

(***************************************************************************)
(* handleWebSocket: one session per connection, and the subscriber         *)
(* registry (subscribe / unsubscribe under wsMutex.Lock).                  *)
(***************************************************************************)

\* wsMutex.Lock is granted only while no handler holds the read lock; subscribe
\* and unsubscribe do no I/O under it, so each is one step.
CanLock == rlock = {}

\* Upgrade succeeded: the session enters its read loop.
WsConnect(c) ==
    /\ ws[c].state = "connect"
    /\ ws' = [ws EXCEPT ![c].state = "open"]
    /\ UNCHANGED <<web, crt, timeVars, storeVars, created, nextId, faults, wsConnections, rlock, snd, rdr, del, hist>>

\* Server.subscribe: append the connection to the queue's slice.
Subscribed(list, c) == Append(list, c)

\* A `subscribe` frame with non-empty queue_id and access_token.
WsSubscribe(c, h, t, maxSubs) ==
    /\ ws[c].state \in {"open", "broken"} /\ ws[c].pc = "read"
    /\ t # ""
    /\ CanLock
    /\ Len(wsConnections[h]) < maxSubs
    /\ wsConnections' = [wsConnections EXCEPT ![h] = Subscribed(@, c)]
    /\ ws' = [ws EXCEPT ![c].subscribedQueues = @ \cup {h}]
    /\ hist' = [hist EXCEPT !.presented[c] = @ \cup {t}, !.subs[c] = @ \cup {h},
                            !.detached[c] = @ \ {h}]
    /\ UNCHANGED <<web, crt, timeVars, storeVars, created, nextId, faults, rlock, snd, rdr, del>>

\* Server.unsubscribe: remove the first entry equal to the connection.
Unsubscribed(list, c) == LRem(list, c)

\* An `unsubscribe` frame with non-empty queue_id.
WsUnsubscribe(c, h) ==
    /\ ws[c].state \in {"open", "broken"} /\ ws[c].pc = "read"
    /\ CanLock
    /\ wsConnections' = [wsConnections EXCEPT ![h] = Unsubscribed(@, c)]
    /\ ws' = [ws EXCEPT ![c].subscribedQueues = @ \ {h}]
    /\ hist' = [hist EXCEPT !.detached[c] = @ \cup {h}]
    /\ UNCHANGED <<web, crt, timeVars, storeVars, created, nextId, faults, rlock, snd, rdr, del>>

\* An `ack` frame: Manager.DeleteMessage starts by verifying the token; any
\* error it returns is dropped by the session, which reads the next frame.
WsAckBegin(c, h, m, t) ==
    /\ ws[c].state \in {"open", "broken"} /\ ws[c].pc = "read"
    /\ t # ""
    /\ \/ /\ CanFail /\ Fail
          /\ UNCHANGED ws
       \/ /\ ~TokenValid(h, t)
          /\ UNCHANGED ws
          /\ NoFail
       \/ /\ TokenValid(h, t)
          /\ ws' = [ws EXCEPT ![c] = [@ EXCEPT !.pc = "ackDel", !.q = h, !.id = m, !.token = t]]
          /\ NoFail
    /\ hist' = [hist EXCEPT !.presented[c] = @ \cup {t}]
    /\ UNCHANGED <<web, crt, timeVars, storeVars, created, nextId, wsConnections, rlock, snd, rdr, del>>

WsRead(c) == [ws[c] EXCEPT !.pc = "read", !.q = NoQueue, !.id = 0, !.token = ""]

\* DEL message:{h}:{m}.
WsAckDel(c) ==
    /\ ws[c].pc = "ackDel"
    /\ \/ /\ CanFail /\ Fail
          /\ ws' = [ws EXCEPT ![c] = WsRead(c)]
          /\ UNCHANGED msgRec
       \/ /\ msgRec' = msgRec \ Stored(ws[c].q, ws[c].id)
          /\ ws' = [ws EXCEPT ![c].pc = "ackLRem"]
          /\ NoFail
    /\ UNCHANGED <<web, crt, timeVars, queueRec, tokenIdx, msgList, created, nextId, wsConnections, rlock,
                   snd, rdr, del, hist>>

\* LREM queue:{h}:messages 1 m; DeleteMessage returns nil.
WsAckLRem(c) ==
    /\ ws[c].pc = "ackLRem"
    /\ \/ /\ CanFail /\ Fail
          /\ UNCHANGED <<msgList, hist>>
       \/ /\ msgList' = [msgList EXCEPT ![ws[c].q] = LRem(@, ws[c].id)]
          /\ hist' = [hist EXCEPT !.acked = @ \cup {<<ws[c].q, ws[c].id>>}]
          /\ NoFail
    /\ ws' = [ws EXCEPT ![c] = WsRead(c)]
    /\ UNCHANGED <<web, crt, timeVars, queueRec, tokenIdx, msgRec, created, nextId, wsConnections, rlock,
                   snd, rdr, del>>

\* A `ping` frame: the read loop itself starts conn.WriteJSON(pong), under no lock.
WsPing(c, maxPings) ==
    /\ ws[c].state \in {"open", "broken"} /\ ws[c].pc = "read"
    /\ ws[c].pings < maxPings
    /\ ws' = [BeginWrite(c, c) EXCEPT ![c].pc = "pong", ![c].pings = @ + 1]
    /\ UNCHANGED <<web, crt, timeVars, storeVars, created, nextId, faults, wsConnections, rlock, snd, rdr, del, hist>>

\* The pong write returns (its error is dropped).  The outcomes of an overlapped
\* write are those of NotifyWriteEnd; a panic unwinds the session into its
\* deferred cleanup.
WsPongEnd(c) ==
    /\ ws[c].pc = "pong"
    /\ \/ /\ ws[c].state # "open"
          /\ ws' = [EndWrite(c, c, <<>>) EXCEPT ![c].pc = "read"]
       \/ /\ ws[c].state = "open"
          /\ ws' = [EndWrite(c, c, <<Pong>>) EXCEPT ![c].pc = "read"]
       \/ /\ ws[c].state = "open" /\ ws[c].raced
          /\ ws' = [EndWrite(c, c, <<Garbled>>) EXCEPT ![c].pc = "read"]
       \/ /\ ws[c].state = "open" /\ ws[c].raced
          /\ ws' = [EndWrite(c, c, <<>>) EXCEPT ![c].pc = "read", ![c].state = "closing"]
    /\ UNCHANGED <<web, crt, timeVars, storeVars, created, nextId, faults, wsConnections, rlock, snd, rdr, del, hist>>

\* The peer vanishes; the server has not read the error yet.
PeerGone(c) ==
    /\ ws[c].state = "open"
    /\ ws' = [ws EXCEPT ![c].state = "broken"]
    /\ UNCHANGED <<web, crt, timeVars, storeVars, created, nextId, faults, wsConnections, rlock, snd, rdr, del, hist>>

\* The peer stays connected but stops reading and sending: no write deadline
\* is set on the connection, so a conn.WriteJSON to it does not return.
PeerStalls(c) ==
    /\ ws[c].state = "open"
    /\ ws' = [ws EXCEPT ![c].state = "stalled"]
    /\ UNCHANGED <<web, crt, timeVars, storeVars, created, nextId, faults, wsConnections, rlock, snd, rdr, del, hist>>

\* conn.ReadJSON returns an error (close frame, broken connection): the loop
\* breaks and the deferred functions start.
WsReadErr(c) ==
    /\ ws[c].state \in {"open", "broken"} /\ ws[c].pc = "read"
    /\ ws' = [ws EXCEPT ![c].state = "closing"]
    /\ UNCHANGED <<web, crt, timeVars, storeVars, created, nextId, faults, wsConnections, rlock, snd, rdr, del, hist>>

\* Deferred: unsubscribe from one recorded queue (map iteration order).
WsCleanup(c, h) ==
    /\ ws[c].state = "closing"
    /\ h \in ws[c].subscribedQueues
    /\ CanLock
    /\ wsConnections' = [wsConnections EXCEPT ![h] = Unsubscribed(@, c)]
    /\ ws' = [ws EXCEPT ![c].subscribedQueues = @ \ {h}]
    /\ UNCHANGED <<web, crt, timeVars, storeVars, created, nextId, faults, rlock, snd, rdr, del, hist>>

\* Deferred: conn.Close() after every recorded queue was unsubscribed.
WsClosed(c) ==
    /\ ws[c].state = "closing"
    /\ ws[c].subscribedQueues = {}
    /\ ws' = [ws EXCEPT ![c].state = "closed"]
    /\ UNCHANGED <<web, crt, timeVars, storeVars, created, nextId, faults, wsConnections, rlock, snd, rdr, del, hist>>

(***************************************************************************)
(* middleware.Timeout(60 s) and Server.Shutdown.                           *)
(***************************************************************************)

\* The request's 60 s deadline passes while handleSendMessage is running.  The
\* middleware cancels the request's context and, once the handler has
\* returned, writes 504 unless a status was already written; the Manager's
\* Redis calls run under context.Background() and handleSendMessage never
\* looks at the request's context, so the handler goes on as before.
DeadlineFires(s) ==
    /\ snd[s].pc \notin {"idle", "done"}
    /\ ~snd[s].timedOut
    /\ snd' = [snd EXCEPT ![s].timedOut = TRUE]
    /\ UNCHANGED <<web, crt, timeVars, storeVars, created, nextId, faults, wsConnections, rlock, ws,
                   rdr, del, hist>>

\* The connections that are in some queue's subscriber list.
Registered == UNION {Range(wsConnections[h]) : h \in Handles}

\* Server.Shutdown: under wsMutex.Lock, conn.Close() on every connection of
\* every subscriber list and delete of every list.  A closed socket is dead
\* to its session, whose read loop has not seen the error yet.
Shutdown ==
    /\ ~hist.shutdown
    /\ CanLock
    /\ ws' = [c \in Conns |->
                IF c \in Registered /\ ws[c].state = "open"
                THEN [ws[c] EXCEPT !.state = "broken"]
                ELSE ws[c]]
    /\ wsConnections' = [h \in Handles |-> <<>>]
    /\ hist' = [hist EXCEPT !.shutdown = TRUE]
    /\ UNCHANGED <<web, crt, timeVars, storeVars, created, nextId, faults, rlock, snd, rdr, del>>

\* main, after server.Shutdown: redisClient.Close().  From here on every
\* Redis call of a handler that is still running returns an error.
RedisClose ==
    /\ hist.shutdown /\ ~hist.redisClosed
    /\ hist' = [hist EXCEPT !.redisClosed = TRUE]
    /\ UNCHANGED <<web, crt, timeVars, storeVars, created, nextId, faults, wsConnections, rlock,
                   ws, snd, rdr, del>>

\* main, after redisClient.Close(): os.Exit(0) ends every goroutine.
ProcessExit ==
    /\ hist.redisClosed /\ ~hist.exited
    /\ hist' = [hist EXCEPT !.exited = TRUE]
    /\ UNCHANGED <<web, crt, timeVars, storeVars, created, nextId, faults, wsConnections, rlock,
                   ws, snd, rdr, del>>

(***************************************************************************)
(* Redis TTL: a key with a TTL may expire.                                 *)
(***************************************************************************)

\* In the workloads that do not run the clock, MessageTTL running out for one
\* record is a step of its own.
ExpireMessage(x) ==
    /\ x \in msgRec
    /\ msgRec' = msgRec \ {x}
    /\ UNCHANGED <<web, crt, timeVars, queueRec, tokenIdx, msgList, created, nextId, faults, wsConnections,
                   rlock, ws, snd, rdr, del, hist>>

\* Whether a key that expires at `due` is gone at time t.
Expired(due, t) == due # NoTTL /\ due <= t

\* The clock advances by one tick.  Redis never returns a key whose TTL has
\* run out: "queue:{h}" (QueueTTL, renewed by updateQueue), "token:{t}"
\* (QueueTTL, written once by CreateQueue), "message:{h}:{m}" (MessageTTL) and
\* "queue:{h}:messages" (QueueTTL, renewed by every SendMessage).
Tick ==
    /\ now < MaxClock
    /\ now' = now + 1
    /\ queueRec' = [h \in Handles |-> queueRec[h] /\ ~Expired(queueDue[h], now + 1)]
    /\ tokenIdx' = [t \in Tokens |->
                       IF Expired(keyDue.token[t], now + 1) THEN NoQueue ELSE tokenIdx[t]]
    /\ msgRec' = {x \in msgRec : ~Expired(keyDue.msg[x.id], now + 1)}
    /\ msgList' = [h \in Handles |->
                       IF Expired(keyDue.list[h], now + 1) THEN <<>> ELSE msgList[h]]
    /\ UNCHANGED <<web, crt, keyDue, expiresAt, queueDue, created, nextId, faults,
                   wsConnections, rlock, ws, snd, rdr, del, hist>>

ExpireToken(t) ==
    /\ tokenIdx[t] # NoQueue
    /\ tokenIdx' = [tokenIdx EXCEPT ![t] = NoQueue]
    /\ UNCHANGED <<web, crt, timeVars, queueRec, msgList, msgRec, created, nextId, faults, wsConnections,
                   rlock, ws, snd, rdr, del, hist>>

(***************************************************************************)
(* Specifications.  Each one is the server under a workload: which         *)
(* requests and frames arrive, and how many handlers run concurrently.     *)
(***************************************************************************)

SendSteps(s) ==
    \/ SendCount(s)
    \/ SendSetMsg(s)
    \/ SendRPush(s)
    \/ SendExpire(s)
    \/ SendUpdate(s)
    \/ NotifyLock(s)

RecvSteps(r) ==
    \/ RecvLRange(r)
    \/ RecvGet(r)
    \/ RecvLRem(r)
    \/ RecvGetQueue(r)
    \/ RecvUpdate(r)

DelSteps(d) ==
    \/ DelLRange(d)
    \/ DelMsg(d)
    \/ DelList(d)
    \/ DelQueueRec(d)
    \/ DelToken(d)

\* Authorization workload: two queues, one sender, one poller and one deleter
\* presenting any credential, and token expiry.
MaxMsgsAuth == 1

NextAuth ==
    \/ CreateQueue(2)
    \/ \E h \in Handles : SendBegin("s1", h, <<9, 9>>, MaxMsgsAuth)
    \/ SendSteps("s1")
    \/ \E h \in Handles, t \in Tokens : RecvBegin("r1", h, t, NoSince, MaxWindowLimit)
    \/ RecvSteps("r1")
    \/ \E h \in Handles, t \in Tokens : DelBegin("d1", h, t)
    \/ DelSteps("d1")
    \/ \E t \in Tokens : ExpireToken(t)

SpecAuth == Init /\ [][NextAuth]_vars

\* Streaming workload: two sessions that subscribe with any non-empty token,
\* unsubscribe, ping and close, and two concurrent send handlers.
MaxMsgsWs == 2
MaxSubs == 2
MaxPings == 1
WsTokens == {"tA", "tX"}

WsSteps(c) ==
    \/ WsConnect(c)
    \/ \E t \in WsTokens : WsSubscribe(c, "hA", t, MaxSubs)
    \/ WsUnsubscribe(c, "hA")
    \/ WsPing(c, MaxPings)
    \/ WsPongEnd(c)
    \/ WsReadErr(c)
    \/ WsCleanup(c, "hA")
    \/ WsClosed(c)

NextWs ==
    \/ CreateQueue(1)
    \/ \E s \in {"s1", "s2"} : SendBegin(s, "hA", <<9, 9>>, MaxMsgsWs)
    \/ \E s \in {"s1", "s2"} : SendSteps(s) \/ NotifyWriteBegin(s) \/ NotifyWriteEnd(s)
    \/ \E c \in {"c1"} : WsSteps(c)

SpecWs == Init /\ [][NextWs]_vars

\* Window workload: a send handler, a poller with any `since`, and message
\* expiry.
MaxMsgsWin == 3

\* The ids a client can name: those of messages appended to the queue.
KnownIds(h) == {hist.appended[h][i].id : i \in DOMAIN hist.appended[h]}

NextWindow ==
    \/ CreateQueue(1)
    \/ SendBegin("s1", "hA", <<9, 9>>, MaxMsgsWin)
    \/ SendSteps("s1")
    \/ \E since \in 0..(MaxMsgsWin + 1) : RecvBegin("r1", "hA", "tA", since, MaxWindowLimit)
    \/ RecvSteps("r1")
    \/ \E x \in msgRec : ExpireMessage(x)

SpecWindow == Init /\ [][NextWindow]_vars

\* Acknowledge workload: two concurrent send handlers, a poller, and a session
\* that acknowledges appended messages.
MaxMsgsAck == 2

NextAck ==
    \/ CreateQueue(1)
    \/ \E s \in {"s1", "s2"} : SendBegin(s, "hA", <<9, 9>>, MaxMsgsAck)
    \/ \E s \in {"s1", "s2"} : SendSteps(s)
    \/ RecvBegin("r1", "hA", "tA", NoSince, MaxWindowLimit)
    \/ RecvSteps("r1")
    \/ WsConnect("c1")
    \/ \E m \in KnownIds("hA") : WsAckBegin("c1", "hA", m, "tA")
    \/ WsAckDel("c1")
    \/ WsAckLRem("c1")

SpecAck == Init /\ [][NextAck]_vars

\* Race workload: concurrent send handlers on one queue and a delete handler
\* that presents the queue's token.
MaxMsgsRace == 2

NextRace ==
    \/ CreateQueue(1)
    \/ \E s \in {"s1", "s2"} : SendBegin(s, "hA", <<9, 9>>, MaxMsgsRace)
    \/ \E s \in {"s1", "s2"} : SendSteps(s)
    \/ DelBegin("d1", "hA", "tA")
    \/ DelSteps("d1")

SpecRace == Init /\ [][NextRace]_vars

\* Depth workload: three concurrent send handlers fill one queue.
MaxMsgsDepth == 5

NextDepth ==
    \/ CreateQueue(1)
    \/ \E s \in Senders : SendBegin(s, "hA", <<9, 9>>, MaxMsgsDepth)
    \/ \E s \in Senders : SendSteps(s)

SpecDepth == Init /\ [][NextDepth]_vars

\* Fault workload: one sender and one subscriber, with Store faults injected.
MaxMsgsFault == 2

NextFault ==
    \/ CreateQueue(1)
    \/ SendBegin("s1", "hA", <<9, 9>>, MaxMsgsFault)
    \/ SendSteps("s1") \/ NotifyWriteBegin("s1") \/ NotifyWriteEnd("s1")
    \/ WsConnect("c1")
    \/ WsSubscribe("c1", "hA", "tA", 1)

SpecFault == InitFaulty /\ [][NextFault]_vars

\* Best-effort workload: one send handler broadcasts to two sessions whose
\* peers may vanish and which close; a poller reads the queue.
MaxMsgsSkip == 1

NextSkip ==
    \/ CreateQueue(1)
    \/ SendBegin("s1", "hA", <<9, 9>>, MaxMsgsSkip)
    \/ SendSteps("s1") \/ NotifyWriteBegin("s1") \/ NotifyWriteEnd("s1")
    \/ \E c \in Conns :
          \/ WsConnect(c)
          \/ WsSubscribe(c, "hA", "tA", MaxSubs)
          \/ PeerGone(c)
          \/ WsReadErr(c)
          \/ WsCleanup(c, "hA")
          \/ WsClosed(c)
    \/ RecvBegin("r1", "hA", "tA", NoSince, MaxWindowLimit)
    \/ RecvLRange("r1") \/ RecvGet("r1") \/ RecvGetQueue("r1") \/ RecvUpdate("r1")

SpecSkip == Init /\ [][NextSkip]_vars
\* Token workload: two queues; a sender and an acknowledging session on the
\* first queue, a poller on the second and a deleter on either queue, each
\* presenting either queue's token, and token expiry.
MaxMsgsTok == 1
IssuedTokens == {TokenPool[i] : i \in 1..Len(TokenPool)}

NextToken ==
    \/ CreateQueue(2)
    \/ SendBegin("s1", "hA", <<9, 9>>, MaxMsgsTok)
    \/ SendSteps("s1")
    \/ \E t \in IssuedTokens : RecvBegin("r1", "hB", t, NoSince, MaxWindowLimit)
    \/ RecvLRange("r1") \/ RecvGetQueue("r1") \/ RecvUpdate("r1")
    \/ \E h \in Handles, t \in IssuedTokens : DelBegin("d1", h, t)
    \/ DelSteps("d1")
    \/ WsConnect("c1")
    \/ \E t \in IssuedTokens : \E m \in KnownIds("hA") : WsAckBegin("c1", "hA", m, t)
    \/ WsAckDel("c1")
    \/ WsAckLRem("c1")
    \/ \E t \in Tokens : ExpireToken(t)

SpecToken == Init /\ [][NextToken]_vars
\* Lifetime workload: one queue, a sender and a poller, and the clock, which
\* expires the queue record, the token, the message records and the list.
MaxMsgsTtl == 2

NextTtl ==
    \/ CreateQueue(1)
    \/ SendBegin("s1", "hA", <<9, 9>>, MaxMsgsTtl)
    \/ SendSteps("s1")
    \/ RecvBegin("r1", "hA", "tA", NoSince, MaxWindowLimit)
    \/ RecvSteps("r1")
    \/ Tick

SpecTtl == Init /\ [][NextTtl]_vars
\* Boundary workload: one send handler at a time, with payloads of one byte,
\* of exactly MaxMessageSize bytes and of more, until the queue is full.
PayloadOfLen(n) == [i \in 1..n |-> 0]
EdgePayloads == {PayloadOfLen(n) : n \in {1, MaxMessageSize, MaxMessageSize + 1, MaxMessageSize + 2}}

NextEdge ==
    \/ CreateQueue(1)
    \/ \E p \in EdgePayloads : SendBegin("s1", "hA", p, MaxMessagesInQueue + 1)
    \/ SendSteps("s1")

SpecEdge == Init /\ [][NextEdge]_vars
\* Limit workload: one queue, a sender, and GET /queue/hA/receive requests
\* with any `limit` query parameter.
MaxMsgsLim == 2

NextLimit ==
    \/ CreateQueue(1)
    \/ SendBegin("s1", "hA", <<9, 9>>, MaxMsgsLim)
    \/ SendSteps("s1")
    \/ \E n \in 0..(MaxWindowLimit + 1) : HandleReceive("r1", "hA", "tA", NoSince, n)
    \/ RecvLRange("r1") \/ RecvGet("r1") \/ RecvGetQueue("r1") \/ RecvUpdate("r1")

SpecLimit == Init /\ [][NextLimit]_vars

\* Polling workload: one queue, a sender, a client that polls with and
\* without `since` and with a small or the largest limit, and a session that
\* acknowledges appended messages.
MaxMsgsPoll == 2

NextPoll ==
    \/ CreateQueue(1)
    \/ SendBegin("s1", "hA", <<9, 9>>, MaxMsgsPoll)
    \/ SendSteps("s1")
    \/ \E since \in 0..MaxMsgsPoll, limit \in {1, MaxWindowLimit} :
          Poll("r1", "hA", "tA", since, limit)
    \/ RecvSteps("r1")
    \/ WsConnect("c1")
    \/ \E m \in KnownIds("hA") : WsAckBegin("c1", "hA", m, "tA")
    \/ WsAckDel("c1")
    \/ WsAckLRem("c1")

SpecPoll == Init /\ [][NextPoll]_vars

\* Gateway workload: one send handler that is given bodies that do not parse,
\* that lack `payload` and that are well formed, one subscriber, and the
\* request deadline.
MaxMsgsGw == 2

GatewayBodies == {GarbageBody, NoPayloadBody, JsonBody(<<9, 9>>)}

NextGateway ==
    \/ CreateQueue(1)
    \/ \E b \in GatewayBodies : HandleSend("s1", "hA", b, MaxMsgsGw)
    \/ SendSteps("s1") \/ NotifyWriteBegin("s1") \/ NotifyWriteEnd("s1")
    \/ DeadlineFires("s1")
    \/ WsConnect("c1")
    \/ WsSubscribe("c1", "hA", "tA", 1)

SpecGateway == Init /\ [][NextGateway]_vars

\* Shutdown workload: two sessions that subscribe, unsubscribe and close, a
\* send handler that broadcasts, and the signal handler of main, which runs
\* server.Shutdown, redisClient.Close() and os.Exit(0) in that order.  The
\* HTTP server is not stopped, so the handlers go on until the process exits.
MaxMsgsDown == 1

NextShutdown ==
    \/ /\ ~hist.exited
       /\ \/ CreateQueue(1)
          \/ SendBegin("s1", "hA", <<9, 9>>, MaxMsgsDown)
          \/ SendSteps("s1") \/ NotifyWriteBegin("s1") \/ NotifyWriteEnd("s1")
          \/ \E c \in Conns :
                \/ WsConnect(c)
                \/ WsSubscribe(c, "hA", "tA", MaxSubs)
                \/ WsUnsubscribe(c, "hA")
                \/ WsReadErr(c)
                \/ WsCleanup(c, "hA")
                \/ WsClosed(c)
    \/ Shutdown
    \/ RedisClose
    \/ ProcessExit

SpecShutdown == Init /\ [][NextShutdown]_vars

\* Liveness workload: a send handler that broadcasts, and two sessions that
\* subscribe once, may fall silent or stall, and may be closed by their peer.
\* The server's own steps are taken whenever they stay possible: a handler
\* goroutine that can run does run.  What a client does (a request, a frame,
\* a close) is not forced to happen.
MaxMsgsLive == 1

SendRuns(s) == SendSteps(s) \/ NotifyWriteBegin(s) \/ NotifyWriteEnd(s)

WsDeferred(c) == WsCleanup(c, "hA") \/ WsClosed(c)

NextLive ==
    \/ CreateQueue(1)
    \/ SendBegin("s1", "hA", <<9, 9>>, MaxMsgsLive)
    \/ SendRuns("s1")
    \/ \E c \in Conns :
          \/ WsConnect(c)
          \/ WsSubscribe(c, "hA", "tA", MaxSubs)
          \/ PeerStalls(c)
          \/ WsReadErr(c)
          \/ WsDeferred(c)

SpecLive ==
    /\ Init /\ [][NextLive]_vars
    /\ WF_vars(SendRuns("s1"))
    /\ \A c \in Conns : WF_vars(WsDeferred(c))

\* Rejection workload: two queues; on the first one a send handler with small
\* and oversized payloads until the queue is full, a deleter that presents
\* either queue's token, and a poller and an acknowledging session that
\* present the other queue's token.
RejectPayloads == {PayloadOfLen(1), PayloadOfLen(MaxMessageSize + 1)}

NextReject ==
    \/ CreateQueue(2)
    \/ \E p \in RejectPayloads : SendBegin("s1", "hA", p, MaxMessagesInQueue + 1)
    \/ SendSteps("s1")
    \/ RecvBegin("r1", "hA", "tB", NoSince, MaxWindowLimit)
    \/ WsConnect("c1")
    \/ \E m \in KnownIds("hA") : WsAckBegin("c1", "hA", m, "tB")
    \/ \E t \in IssuedTokens : DelBegin("d1", "hA", t)
    \/ DelSteps("d1")

SpecReject == Init /\ [][NextReject]_vars

\* Expiry workload: two send handlers fill the queue while message records
\* expire; nobody polls.
NextExpiry ==
    \/ CreateQueue(1)
    \/ \E s \in {"s1", "s2"} : SendBegin(s, "hA", <<9, 9>>, MaxMessagesInQueue + 1)
    \/ \E s \in {"s1", "s2"} : SendSteps(s)
    \/ \E x \in msgRec : ExpireMessage(x)

SpecExpiry == Init /\ [][NextExpiry]_vars

(***************************************************************************)
(* Properties.                                                             *)
(***************************************************************************)

\* The token CreateQueue returned together with handle h.
IssuedFor(h) == {TokenPool[i] : i \in {j \in 1..Len(HandlePool) : HandlePool[j] = h}}

\* A receive handler that passed verification (it is reading, or answered 200).
Reading(r) == rdr[r].pc \in {"lrange", "loop", "lrem", "update"}
              \/ (rdr[r].pc = "done" /\ rdr[r].status = 200)

\* r takes the first step of a new request.
RecvArrives(r) == rdr[r].pc \in {"idle", "done"} /\ rdr'[r] # rdr[r]

\* C1: Window(handle, token, ...) proceeds to read messages only if the
\* token-index entry of `token` exists and maps to exactly `handle`; if the
\* entry is missing (never issued, expired, deleted, empty token) or maps to
\* another queue the answer is 401 with no message.  In particular only the
\* token issued with a queue ever authorizes a Window on it.
C1_WindowNeedsToken ==
    /\ [](\A r \in Readers : Reading(r) => rdr[r].token \in IssuedFor(rdr[r].q))
    /\ [][\A r \in Readers : RecvArrives(r) =>
            IF tokenIdx[rdr'[r].token] = rdr'[r].q
            THEN rdr'[r].pc = "lrange"
            ELSE rdr'[r].pc = "done" /\ rdr'[r].status = 401 /\ rdr'[r].messages = <<>>]_vars

\* Queue A holds a message, queue B's token is valid, and a Window on A with
\* B's token was answered 401.
C1_Witness ==
    /\ rdr["r1"].pc = "done" /\ rdr["r1"].status = 401
    /\ rdr["r1"].q = "hA" /\ rdr["r1"].token = "tB"
    /\ tokenIdx["tB"] = "hB" /\ tokenIdx["tA"] = "hA"
    /\ msgList["hA"] # <<>>

\* The `message` frames a connection has received.
MessageFrames(c) == {f \in Range(ws[c].inbox) : f.type = "message"}

\* C2: a party that knows a queue handle but not its access token never
\* obtains a payload of that queue, neither by polling nor as `message` frames
\* on a session that subscribed with a wrong token: whoever received a message
\* of queue h has presented the token issued for h.
C2_PayloadNeedsToken ==
    /\ \A r \in Readers : Reading(r) => rdr[r].token \in IssuedFor(rdr[r].q)
    /\ \A c \in Conns : \A f \in MessageFrames(c) :
          IssuedFor(f.queue_id) \cap hist.presented[c] # {}

\* A send handler that is in, or past, notifySubscribers.
Notifying(s) == snd[s].pc \in {"notify", "write", "writing"}

\* C3: after DeleteQueue(h, t) returned success no queue record, id list,
\* message record or token-index entry of h exists, and every later Append to
\* h returns not-found, also when an Append was in flight during the delete.
C3_DeletedQueueStaysGone ==
    \A h \in hist.deleted :
       /\ ~queueRec[h]
       /\ msgList[h] = <<>>
       /\ {x \in msgRec : x.queue = h} = {}
       /\ \A t \in Tokens : tokenIdx[t] # h
       /\ \A s \in Senders : snd[s].q = h /\ snd[s].late =>
             snd[s].pc = "done" /\ snd[s].status = 404

\* The ids of a sequence of Message records.
Ids(msgs) == [k \in DOMAIN msgs |-> msgs[k].id]

\* C4: after Acknowledge(h, m, t) with a valid token returned success, the
\* message record of m is deleted and m is absent from h's id list, and no
\* Window collects m afterwards.
C4_AckedStaysGone ==
    /\ [](\A a \in hist.acked : Stored(a[1], a[2]) = {} /\ a[2] \notin Range(msgList[a[1]]))
    /\ [][\A r \in Readers : \A x \in Range(rdr'[r].messages) \ Range(rdr[r].messages) :
             <<x.queue, x.id>> \notin hist.acked]_vars

\* A Window had read the id list, the message was then acknowledged, and the
\* Window answered without it.
C4_Witness ==
    /\ rdr["r1"].pc = "done" /\ rdr["r1"].status = 200
    /\ \E m \in Range(rdr["r1"].ids) :
          /\ <<"hA", m>> \in hist.acked
          /\ m \notin Range(Ids(rdr["r1"].messages))

\* The position of id m in the order in which RPUSH took effect on queue h.
AppendPos(h, m) == CHOOSE i \in DOMAIN hist.appended[h] : hist.appended[h][i].id = m

\* C5: within one queue every Window returns its messages in the order in
\* which the Appends' RPUSH steps took effect, also for concurrent handlers.
C5_WindowInAppendOrder ==
    \A r \in Readers : rdr[r].messages # <<>> =>
       /\ Range(Ids(rdr[r].messages)) \subseteq KnownIds(rdr[r].q)
       /\ \A i, j \in DOMAIN rdr[r].messages :
             i < j => AppendPos(rdr[r].q, rdr[r].messages[i].id)
                        < AppendPos(rdr[r].q, rdr[r].messages[j].id)

\* Two concurrent handlers appended in the reverse order of their ids and the
\* Window returned both, the later id first.
C5_Witness ==
    /\ rdr["r1"].pc = "done" /\ rdr["r1"].status = 200
    /\ Ids(rdr["r1"].messages) = <<2, 1>>

\* s without the elements that are in S.
Without(s, S) == SelectSeq(s, LAMBDA x : x \notin S)

\* The first n elements of s.
Take(s, n) == SubSeq(s, 1, IF n < Len(s) THEN n ELSE Len(s))

\* The part of ids after the first occurrence of since; all of ids if there is none.
After(ids, since) ==
    IF \E i \in DOMAIN ids : ids[i] = since
    THEN SubSeq(ids, 1 + (CHOOSE i \in DOMAIN ids :
                             ids[i] = since /\ \A j \in 1..(i-1) : ids[j] # since), Len(ids))
    ELSE ids

\* C6: an authorized Window with `since` = s returns, if s is in the id list,
\* only messages after s in list order, starting immediately after s; if s is
\* not in the list it starts at position 0, as if no `since` had been given.
\* (Ids whose record is missing are skipped; at most `limit` are returned.)
C6_SinceSelectsSuffix ==
    \A r \in Readers : rdr[r].pc = "done" /\ rdr[r].status = 200 =>
       Ids(rdr[r].messages) =
          Take(Without(After(rdr[r].ids, rdr[r].since), rdr[r].pruned), rdr[r].limit)

\* Three messages in the list, a Window with a `since` that is not in the list
\* returned all three.
C6_Witness ==
    /\ rdr["r1"].pc = "done" /\ rdr["r1"].status = 200
    /\ Len(rdr["r1"].ids) = 3
    /\ rdr["r1"].since # NoSince /\ rdr["r1"].since \notin Range(rdr["r1"].ids)
    /\ Ids(rdr["r1"].messages) = rdr["r1"].ids

\* C7: each queue's id list has length <= MaxMessagesInQueue + K, where K = 0
\* when Appends to the queue are serialized and otherwise at most the number
\* of Appends concurrently in flight on the queue, minus one.
C7_DepthBound ==
    \A h \in Handles :
       Len(msgList[h]) <= MaxMessagesInQueue + Max(hist.peak[h] - 1, 0)

\* Two Appends were in flight together and both succeeded at depth
\* MaxMessagesInQueue - 1: the list is one over the limit.
C7_Witness ==
    /\ hist.peak["hA"] = 2
    /\ Len(msgList["hA"]) = MaxMessagesInQueue + 1

\* C8: a `message` notification for (h, m) is broadcast only after Append
\* succeeded (m's record stored, m appended to h's list); if a Store write in
\* Append fails the caller gets 500, m is not in h's list and nobody is notified.
C8_FailedAppendNotBroadcast ==
    /\ \A s \in Senders : Notifying(s) => MessageOf(s) \in Range(hist.appended[snd[s].q])
    /\ \A c \in Conns : \A f \in MessageFrames(c) :
          \E x \in Range(hist.appended[f.queue_id]) : x.id = f.message_id
    /\ \A s \in Senders : snd[s].werr =>
          /\ ~Notifying(s)
          /\ snd[s].pc = "done" => snd[s].status = 500
          /\ snd[s].id \notin Range(msgList[snd[s].q])
          /\ \A c \in Conns : \A f \in MessageFrames(c) : f.message_id # snd[s].id

\* C9: Broadcast(h, n) delivers the notification (queue_id h, the id and the
\* payload of the appended message) to every channel attached to h at the time
\* of the broadcast, and to no channel that is not attached to h.
C9_BroadcastDelivers ==
    /\ \A s \in Senders : snd[s].pc = "done" /\ snd[s].conns # <<>> =>
          \A c \in Range(snd[s].conns) :
             ws[c].state = "open" => Notification(s) \in Range(ws[c].inbox)
    /\ \A c \in Conns : \A f \in Range(ws[c].inbox) : f.type # "pong" =>
          /\ f.type = "message"
          /\ f.queue_id \in hist.subs[c]
          /\ [id |-> f.message_id, queue |-> f.queue_id, payload |-> f.payload]
                \in Range(hist.appended[f.queue_id])

\* C10: at no time are two writes in progress on the same streaming
\* connection (the session's pong and the broadcasters' notifications).
C10_OneWriterPerConn ==
    \A c \in Conns : Cardinality(ws[c].writers) <= 1

\* C11: no handler holds the registry lock (read or write) while it is blocked
\* on connection I/O: a broadcaster has released wsMutex before it writes to a
\* subscriber's connection.
C11_NoLockAcrossIO ==
    \A s \in Senders : snd[s].pc = "writing" => s \notin rlock

\* C12: once a streaming session is CLOSED the registry holds no reference to
\* its connection under any handle, whatever subscribe / unsubscribe frames
\* (repeated subscribes included) the session sent before.
C12_ClosedIsDetached ==
    \A c \in Conns : ws[c].state = "closed" =>
       \A h \in Handles : c \notin Range(wsConnections[h])

\* C13: the subscribers of a handle form a set: a session receives exactly one
\* `message` frame per Broadcast, however many subscribe frames it sent, so no
\* two `message` frames of its inbox carry the same message.
C13_OneFramePerBroadcast ==
    \A c \in Conns : \A i, j \in DOMAIN ws[c].inbox :
       (i < j /\ ws[c].inbox[i].type = "message" /\ ws[c].inbox[j].type = "message")
          => ws[c].inbox[i].message_id # ws[c].inbox[j].message_id

\* s enters notifySubscribers: it takes the read lock and reads the subscribers.
BroadcastInvoked(s) == snd[s].pc = "notify" /\ snd'[s].pc # "notify"

\* C14: after the server processed a session's `unsubscribe` frame for h, and
\* until the session subscribes to h again, no Broadcast on h invoked
\* afterwards notifies that session.
C14_UnsubscribedNotNotified ==
    [][\A s \in Senders : BroadcastInvoked(s) =>
          \A c \in Range(snd'[s].conns) : snd[s].q \notin hist.detached[c]]_vars

\* The position of message id m in the order in which broadcasts on h were invoked.
InvokedPos(h, m) == IndexOf(hist.invoked[h], m)

\* C15: a session receives the notifications of two Broadcasts on the same
\* handle in the order in which the Broadcasts were invoked, also when the
\* Appends are served by concurrent handlers.
C15_NotifiedInInvocationOrder ==
    \A c \in Conns : \A i, j \in DOMAIN ws[c].inbox :
       (/\ i < j
        /\ ws[c].inbox[i].type = "message" /\ ws[c].inbox[j].type = "message"
        /\ ws[c].inbox[i].queue_id = ws[c].inbox[j].queue_id)
          => InvokedPos(ws[c].inbox[i].queue_id, ws[c].inbox[i].message_id)
               <= InvokedPos(ws[c].inbox[j].queue_id, ws[c].inbox[j].message_id)

\* C16: if the write of a notification to one attached channel fails, the
\* broadcaster skips that channel, leaves it attached in the registry, still
\* delivers to the remaining channels of the handle, and the Append returns
\* 201 with the message retrievable by Window.
C16_FailedWriteSkipped ==
    /\ [](\A s \in Senders : snd[s].pc = "done" /\ snd[s].conns # <<>> =>
             /\ snd[s].status = 201
             /\ MessageOf(s) \in msgRec /\ snd[s].id \in Range(msgList[snd[s].q])
             /\ \A c \in Range(snd[s].conns) :
                   ws[c].state = "open" => Notification(s) \in Range(ws[c].inbox))
    /\ [][\A s \in Senders : snd[s].pc = "writing" /\ snd'[s] # snd[s] =>
             wsConnections' = wsConnections]_vars

\* The write to the first subscriber failed (its peer was gone), it is still
\* attached, the second subscriber got the notification, the Append answered
\* 201 and a Window returned the message.
C16_Witness ==
    /\ snd["s1"].pc = "done" /\ snd["s1"].status = 201
    /\ snd["s1"].conns = <<"c1", "c2">>
    /\ ws["c1"].state = "broken" /\ ws["c1"].inbox = <<>>
    /\ "c1" \in Range(wsConnections["hA"])
    /\ ws["c2"].state = "open" /\ Notification("s1") \in Range(ws["c2"].inbox)
    /\ rdr["r1"].pc = "done" /\ rdr["r1"].status = 200
    /\ snd["s1"].id \in Range(Ids(rdr["r1"].messages))

\* CreateQueue stores the mapping of the token it returns with the handle.
TokenCreated(t) ==
    /\ tokenIdx[t] = NoQueue
    /\ crt.pc = "setToken" /\ crt'.pc = "idle"
    /\ t = crt.t /\ tokenIdx'[t] = crt.h

\* The token key's TTL runs out: no handler takes a step.
TokenExpired(t) ==
    /\ tokenIdx'[t] = NoQueue
    /\ UNCHANGED <<created, snd, rdr, del, ws>>

\* A DeleteQueue of the token's own queue, called with that token, returns success.
TokenDeleted(t) ==
    /\ tokenIdx'[t] = NoQueue
    /\ \E d \in Deleters : /\ del[d].pc = "delToken" /\ del'[d].status = 204
                            /\ del[d].q = tokenIdx[t] /\ del[d].token = t

\* C17: from the moment CreateQueue returns {handle, token} the token index
\* maps the token to exactly that handle, until the queue expires or
\* DeleteQueue(handle, token) succeeds; no Append, Window, Acknowledge,
\* CreateQueue, or DeleteQueue of another queue changes or removes the mapping.
C17_TokenMapsToItsQueue ==
    /\ [](\A t \in Tokens : tokenIdx[t] # NoQueue => t \in IssuedFor(tokenIdx[t]))
    /\ [][\A t \in Tokens : tokenIdx'[t] # tokenIdx[t] =>
             TokenCreated(t) \/ TokenExpired(t) \/ TokenDeleted(t)]_vars

\* Queue A received a message, had it acknowledged and was deleted with its
\* token; the token of queue B still maps to B.
C17_Witness ==
    /\ del["d1"].pc = "done" /\ del["d1"].status = 204 /\ del["d1"].q = "hA"
    /\ tokenIdx["tA"] = NoQueue /\ tokenIdx["tB"] = "hB"
    /\ \E a \in hist.acked : a[1] = "hA"

\* C18: a queue's expiresAt is createdAt + QueueTTL and no Append or Window
\* extends the queue's lifetime beyond it: the queue record is never
\* retrievable at or after expiresAt, also when updateQueue rewrites, at or
\* after expiresAt, a record that was read just before it expired.
C18_NoLifeAfterExpiry ==
    \A h \in Handles : queueRec[h] => now < expiresAt[h]

\* s takes the first step of a new send request.
SendArrives(s) == snd[s].pc \in {"idle", "done"} /\ snd'[s] # snd[s]

\* s leaves the queue-full check of SendMessage.
CountChecked(s) == snd[s].pc = "count" /\ snd'[s].pc # "count"

\* C19: with no concurrent operation on the queue, Append at list length
\* MaxMessagesInQueue - 1 (or less) succeeds and Append at list length
\* MaxMessagesInQueue fails with queue-full (429): after MaxMessagesInQueue
\* successful one-byte appends the next append is rejected.
C19_FullAtMaxDepth ==
    /\ [](\A h \in Handles : Len(msgList[h]) <= MaxMessagesInQueue)
    /\ [](\A s \in Senders : snd[s].pc = "done" =>
             /\ snd[s].status = 429 => Len(msgList[snd[s].q]) = MaxMessagesInQueue
             /\ snd[s].status = 201 => /\ msgList[snd[s].q] # <<>>
                                       /\ msgList[snd[s].q][Len(msgList[snd[s].q])] = snd[s].id)
    /\ [][\A s \in Senders : CountChecked(s) =>
             IF Len(msgList[snd[s].q]) >= MaxMessagesInQueue
             THEN snd'[s].pc = "done" /\ snd'[s].status = 429
             ELSE snd'[s].pc = "setMsg"]_vars
    /\ [][\A s \in Senders : snd[s].pc \in {"setMsg", "rpush", "expire", "update", "notify"}
                               /\ snd'[s].pc = "done" => snd'[s].status = 201]_vars

\* MaxMessagesInQueue one-byte messages are stored and the next one-byte
\* append was answered 429.
C19_Witness ==
    /\ snd["s1"].pc = "done" /\ snd["s1"].status = 429 /\ Len(snd["s1"].payload) = 1
    /\ Len(msgList["hA"]) = MaxMessagesInQueue
    /\ Cardinality(msgRec) = MaxMessagesInQueue
    /\ \A x \in msgRec : Len(x.payload) = 1

\* C20: Append to an existing, non-full queue succeeds for every payload of at
\* most MaxMessageSize bytes (exactly MaxMessageSize included) and fails with
\* payload-too-large (413) for every payload of MaxMessageSize + 1 bytes or more.
C20_SizeLimitInclusive ==
    /\ [][\A s \in Senders : SendArrives(s) =>
             IF Len(snd'[s].payload) > MaxMessageSize
             THEN snd'[s].pc = "done" /\ snd'[s].status = 413
             ELSE IF queueRec[snd'[s].q]
                  THEN snd'[s].pc = "count"
                  ELSE snd'[s].pc = "done" /\ snd'[s].status = 404]_vars
    /\ [][\A s \in Senders : CountChecked(s) /\ Len(msgList[snd[s].q]) < MaxMessagesInQueue
             => snd'[s].pc = "setMsg"]_vars
    /\ [][\A s \in Senders : snd[s].pc \in {"setMsg", "rpush", "expire", "update", "notify"}
                               /\ snd'[s] # snd[s] =>
             \/ snd'[s].pc \in {"rpush", "expire", "update", "notify"}
             \/ /\ snd'[s].pc = "done" /\ snd'[s].status = 201
                /\ MessageOf(s) \in msgRec /\ snd[s].id \in Range(msgList[snd[s].q])]_vars

\* A payload of exactly MaxMessageSize bytes is stored and a payload of
\* MaxMessageSize + 1 bytes was answered 413 on the same, non-full queue.
C20_Witness ==
    /\ \E x \in msgRec : Len(x.payload) = MaxMessageSize /\ x.id \in Range(msgList["hA"])
    /\ snd["s1"].pc = "done" /\ snd["s1"].status = 413
    /\ Len(snd["s1"].payload) = MaxMessageSize + 1
    /\ queueRec["hA"] /\ Len(msgList["hA"]) < MaxMessagesInQueue

\* C21: a successful Window returns at most L messages, where L is the
\* requested limit if 1 <= limit <= MaxWindowLimit, the default limit (equal to
\* MaxWindowLimit) if limit is absent or 0, and MaxWindowLimit if limit is
\* larger; this holds for the `limit` query parameter of GET /queue/{h}/receive.
C21_AtMostRequestedLimit ==
    \A r \in Readers : rdr[r].pc = "done" /\ rdr[r].status = 200 =>
       Len(rdr[r].messages) <=
          (IF rdr[r].query = 0 \/ rdr[r].query > MaxWindowLimit
           THEN MaxWindowLimit ELSE rdr[r].query)

\* The position in the id list read by r of the last message r returned.
LastReturnedPos(r) == IndexOf(rdr[r].ids, rdr[r].messages[Len(rdr[r].messages)].id)

\* C22: Window's hasMore is true iff the window stopped because `limit`
\* messages had been collected while ids remained in the list after the last
\* returned one; it is false whenever the list was exhausted, also when
\* exactly `limit` messages were returned and the last was the final id.
C22_HasMoreIffIdsRemain ==
    \A r \in Readers : rdr[r].pc = "done" /\ rdr[r].status = 200 =>
       (rdr[r].hasMore <=> /\ rdr[r].messages # <<>>
                           /\ Len(rdr[r].messages) = rdr[r].limit
                           /\ LastReturnedPos(r) < Len(rdr[r].ids))

\* A Window with limit 1 on a list of one id returned that message with
\* hasMore false.
C22_Witness ==
    /\ rdr["r1"].pc = "done" /\ rdr["r1"].status = 200
    /\ rdr["r1"].limit = 1 /\ Len(rdr["r1"].ids) = 1 /\ Len(rdr["r1"].messages) = 1
    /\ ~rdr["r1"].hasMore

\* r's Window succeeded and followed an earlier successful Window of the
\* same client.
Repolled(r) == rdr[r].pc = "done" /\ rdr[r].status = 200 /\ rdr[r].prev.polled

\* No Append to the queue came between the list reads of r's two Windows.
NoAppendBetween(r) == rdr[r].seen = rdr[r].prev.seen

\* r's Window was given the id its previous Window left as the last one
\* observed: the last id that Window returned or, when it returned nothing,
\* the `since` it was given itself.
SinceLastPolled(r) ==
    /\ rdr[r].since # NoSince /\ rdr[r].since = rdr[r].last
    /\ rdr[r].prev.n > 0 \/ rdr[r].prev.since = rdr[r].since

\* C23 as stated: Window(h, t, since = lastObservedId) returns an empty list
\* every time it is called as long as no Append to h intervenes.
C23_RepollIsEmpty ==
    \A r \in Readers :
       Repolled(r) /\ SinceLastPolled(r) /\ NoAppendBetween(r) =>
          rdr[r].messages = <<>>

\* C23, amended: Window(h, t, since = lastObservedId) returns an empty list
\* as long as no Append to h intervenes, provided the previous Window
\* returned hasMore = false and lastObservedId is still in h's list.
C23_RepollIsEmptyWhenCaughtUp ==
    \A r \in Readers :
       /\ Repolled(r) /\ SinceLastPolled(r) /\ NoAppendBetween(r)
       /\ ~rdr[r].prev.more
       /\ rdr[r].since \in Range(rdr[r].ids)
       => rdr[r].messages = <<>>

\* A Window returned two messages with hasMore false, and the next Window,
\* given the second one's id as `since`, found it in the list and returned
\* nothing.
C23_Witness ==
    /\ Repolled("r1") /\ NoAppendBetween("r1")
    /\ rdr["r1"].prev.n = 2 /\ ~rdr["r1"].prev.more
    /\ SinceLastPolled("r1") /\ rdr["r1"].since \in Range(rdr["r1"].ids)
    /\ rdr["r1"].messages = <<>>

\* The messages appended to r's queue between the list reads of r's two
\* Windows.
AppendedBetween(r) ==
    {hist.appended[rdr[r].q][k].id : k \in (rdr[r].prev.seen + 1)..rdr[r].seen}

\* No id left the list between the list reads of r's two Windows, the
\* appended ones included, and no record r looked up was gone.
NoRemovalBetween(r) ==
    /\ (Range(rdr[r].prev.ids) \cup AppendedBetween(r)) \subseteq Range(rdr[r].ids)
    /\ rdr[r].pruned = {}

\* The ids of the messages r's Window returned, in order.
ReturnedIds(r) == [k \in 1..Len(rdr[r].messages) |-> rdr[r].messages[k].id]

\* Message m is in r's result at a 0-based position >= n.
ReturnedAtOrAfter(r, m, n) ==
    m \in Range(ReturnedIds(r)) /\ IndexOf(ReturnedIds(r), m) - 1 >= n

\* r's two Windows were both without `since`, and exactly one Append came
\* between them.
WindowAppendWindow(r) ==
    /\ Repolled(r)
    /\ rdr[r].since = NoSince /\ rdr[r].prev.since = NoSince
    /\ rdr[r].seen = rdr[r].prev.seen + 1

\* C24 as stated: if a Window without `since` observed n messages and an
\* Append then succeeds, the next Window without `since` returns the appended
\* message at a 0-based position >= n.
C24_AppendedAfterObserved ==
    \A r \in Readers : WindowAppendWindow(r) /\ NoRemovalBetween(r) =>
       \A m \in AppendedBetween(r) : ReturnedAtOrAfter(r, m, rdr[r].prev.n)

\* C24, amended: if a Window without `since` observed n messages and an
\* Append then succeeds, the next Window without `since` returns the appended
\* message at a 0-based position >= n, provided that Window returns
\* hasMore = false and no message left the queue between the two Windows.
C24_AppendedAfterObservedUntruncated ==
    \A r \in Readers :
       WindowAppendWindow(r) /\ NoRemovalBetween(r) /\ ~rdr[r].hasMore =>
          \A m \in AppendedBetween(r) : ReturnedAtOrAfter(r, m, rdr[r].prev.n)

\* A Window without `since` observed one message, a second message was
\* appended, and the next Window returned it at position 1.
C24_Witness ==
    /\ WindowAppendWindow("r1") /\ NoRemovalBetween("r1") /\ ~rdr["r1"].hasMore
    /\ rdr["r1"].prev.n = 1
    /\ Len(rdr["r1"].messages) = 2
    /\ rdr["r1"].messages[2].id \in AppendedBetween("r1")

\* Session c takes a step of DeleteMessage (its DEL or its LREM).
AckStep(c) == ws[c].pc \in {"ackDel", "ackLRem"} /\ ws'[c] # ws[c]

\* C25: Acknowledge(h, m, t) with a valid token of an id that is absent from
\* h's list, as on the second of two calls in succession, succeeds and
\* changes nothing in the Store.
C25_AckAbsentIsNoOp ==
    [][\A c \in Conns :
          AckStep(c) /\ ws[c].id \notin Range(msgList[ws[c].q]) =>
             /\ UNCHANGED storeVars
             /\ ws[c].pc = "ackLRem" => <<ws[c].q, ws[c].id>> \in hist'.acked]_vars

\* A second Acknowledge of an id already acknowledged has passed its DEL
\* while another message is still stored in the queue.
C25_Witness ==
    /\ ws["c1"].pc = "ackLRem"
    /\ <<ws["c1"].q, ws["c1"].id>> \in hist.acked
    /\ msgList[ws["c1"].q] # <<>>
    /\ \E x \in msgRec : x.queue = ws["c1"].q

\* C26: after DELETE /queue/{h} with the valid token has succeeded,
\* GET /queue/{h}/receive with that token returns 404 not-found.
C26_DeletedQueueIs404 ==
    [][\A r \in Readers :
          /\ RecvArrives(r)
          /\ rdr'[r].q \in hist.deleted
          /\ rdr'[r].token \in IssuedFor(rdr'[r].q)
          => rdr'[r].pc = "done" /\ rdr'[r].status = 404]_vars

\* The body is not parseable JSON, or is JSON without a `payload` field.
BadBody(b) == ~b.json \/ ~b.hasPayload

\* C27: POST /queue/{handle}/send (here: to an existing queue) whose body is
\* unparseable JSON, or JSON that lacks `payload`, is rejected with 400 and
\* neither stores a message nor broadcasts: the handler is finished at once,
\* with no message id.
C27_BadBodyRejected ==
    \A s \in Senders :
       snd[s].pc # "idle" /\ BadBody(snd[s].body) /\ queueRec[snd[s].q] =>
          snd[s].pc = "done" /\ snd[s].status = 400 /\ snd[s].id = 0

\* The status the gateway is to answer for each outcome of a Manager call.
ClaimedStatus(e, success) ==
    CASE e = "nil" -> success
      [] e = "ErrQueueNotFound" -> 404
      [] e = "ErrInvalidAccessToken" -> 401
      [] e = "ErrMessageTooLarge" -> 413
      [] e = "ErrQueueFull" -> 429
      [] OTHER -> 500

\* C28: for every outcome of a QueueManager call made by the HTTP gateway
\* the status is determined by the error kind alone: not-found 404,
\* unauthorized 401, payload-too-large 413, queue-full 429, any other error
\* 500; success is 201 for create and send, 200 for receive, 204 for delete.
C28_StatusByErrorKind ==
    /\ \A s \in Senders : snd[s].pc = "done" /\ snd[s].err # "ErrDecode" =>
          snd[s].status = ClaimedStatus(snd[s].err, 201)
    /\ \A r \in Readers : rdr[r].pc = "done" =>
          rdr[r].status = ClaimedStatus(rdr[r].err, 200)
    /\ \A d \in Deleters : del[d].pc = "done" =>
          del[d].status = ClaimedStatus(del[d].err, 204)
    /\ hist.createStatus \in {0, 201, 500}

\* C29: when Shutdown completes, every open streaming session has been
\* closed, whether or not it was subscribed to any handle, and the registry
\* holds no channel for any handle.
C29_ShutdownClosesAll ==
    [][(~hist.shutdown /\ hist'.shutdown) =>
          /\ \A c \in Conns : ws'[c].state # "open"
          /\ \A h \in Handles : wsConnections'[h] = <<>>]_vars

\* C30: when a request exceeds the per-request deadline, no Store write
\* issued by it takes effect after the deadline fired, and the client
\* receives 504.
C30_DeadlineAborts ==
    [][\A s \in Senders :
          snd[s].timedOut /\ snd[s].pc \notin {"idle", "done"} /\ snd'[s] # snd[s] =>
             /\ UNCHANGED storeVars
             /\ snd'[s].pc = "done" => snd'[s].status = 504]_vars

\* C31: a streaming session from which the server receives no frame is
\* eventually terminated by the server, entering CLOSED with its
\* subscriptions detached.  (In the liveness workload every session sends
\* finitely many frames.)
C31_IdleSessionTerminated ==
    \A c \in Conns :
       ws[c].state \in {"open", "stalled"} ~>
          (ws[c].state = "closed" /\ \A h \in Handles : c \notin Range(wsConnections[h]))

\* C38: every Append request eventually receives its HTTP response, even
\* when some subscriber connection never accepts a write.
C38_AppendAnswered ==
    \A s \in Senders : snd[s].pc \notin {"idle", "done"} ~> snd[s].pc = "done"

\* The id r's Window is examining, and whether its record is missing.
Examined(r) == rdr[r].ids[rdr[r].i]

RecordMissing(r) == ~\E x \in msgRec : x.queue = rdr[r].q /\ x.id = Examined(r)

\* C33: during a Window, every id examined (from the start position on,
\* before the limit is reached) whose message record is missing is removed
\* from the queue's id list, is not returned, and does not count toward the
\* limit.
C33_MissingRecordPruned ==
    [][\A r \in Readers :
          /\ (rdr[r].pc = "loop" /\ ~LoopOver(r) /\ RecordMissing(r) /\ rdr'[r] # rdr[r]) =>
                /\ rdr'[r].pc = "lrem"
                /\ rdr'[r].messages = rdr[r].messages
          /\ (rdr[r].pc = "lrem" /\ rdr'[r] # rdr[r]) =>
                /\ Examined(r) \notin Range(msgList'[rdr[r].q])
                /\ rdr'[r].messages = rdr[r].messages
                /\ rdr'[r].pc = "loop" /\ rdr'[r].i = rdr[r].i + 1]_vars

\* A Window with limit 1 found the first id's record missing, removed the id
\* and returned the message after it.
C33_Witness ==
    /\ rdr["r1"].pc = "done" /\ rdr["r1"].status = 200 /\ rdr["r1"].limit = 1
    /\ Len(rdr["r1"].ids) = 2
    /\ rdr["r1"].pruned = {rdr["r1"].ids[1]}
    /\ Len(rdr["r1"].messages) = 1 /\ rdr["r1"].messages[1].id = rdr["r1"].ids[2]
    /\ rdr["r1"].ids[1] \notin Range(msgList["hA"])

\* The error kinds with which SendMessage rejects an Append.
AppendRejections == {"ErrMessageTooLarge", "ErrQueueNotFound", "ErrQueueFull"}

\* Handler x of the family f takes a step that ends its request with an
\* error of `kinds`.
EndsWith(f, x, kinds) == f'[x] # f[x] /\ f'[x].pc = "done" /\ f'[x].err \in kinds

\* The step is taken by a request that has passed every check: a send past
\* the size, existence and depth checks, or a Window, Acknowledge or
\* DeleteQueue past verifyAccessToken.
AcceptedStep ==
    \/ \E s \in Senders : snd[s].pc \in {"setMsg", "rpush", "expire", "update"} /\ snd'[s] # snd[s]
    \/ \E r \in Readers : rdr[r].pc \in {"lrange", "loop", "lrem", "update"} /\ rdr'[r] # rdr[r]
    \/ \E c \in Conns : ws[c].pc \in {"ackDel", "ackLRem"} /\ ws'[c] # ws[c]
    \/ \E d \in Deleters : del[d].pc \notin {"idle", "done"} /\ del'[d] # del[d]

\* C34: an Append that fails with payload-too-large, not-found or
\* queue-full, and a Window, Acknowledge or DeleteQueue that fails with
\* unauthorized, leave every Store record unchanged and cause no broadcast:
\* the failing step changes nothing, the request has written nothing before
\* it (only accepted requests and CreateQueue write), and no request that
\* was refused the token gets past the check.
C34_RejectedLeavesStore ==
    /\ [](\A s \in Senders : snd[s].pc = "done" /\ snd[s].err \in AppendRejections =>
             snd[s].id = 0 /\ snd[s].conns = <<>>)
    /\ [](\A r \in Readers : rdr[r].pc \notin {"idle", "done"} =>
             rdr[r].token \in IssuedFor(rdr[r].q))
    /\ [](\A c \in Conns : ws[c].pc \in {"ackDel", "ackLRem"} =>
             ws[c].token \in IssuedFor(ws[c].q))
    /\ [](\A d \in Deleters : del[d].pc \notin {"idle", "done"} =>
             del[d].token \in IssuedFor(del[d].q))
    /\ [][/\ \A s \in Senders : EndsWith(snd, s, AppendRejections) =>
                UNCHANGED <<storeVars, ws, hist>> /\ snd[s].pc \in {"idle", "done", "count"}
          /\ \A r \in Readers : EndsWith(rdr, r, {"ErrInvalidAccessToken"}) =>
                UNCHANGED <<storeVars, ws, hist>> /\ rdr[r].pc \in {"idle", "done"}
          /\ \A d \in Deleters : EndsWith(del, d, {"ErrInvalidAccessToken"}) =>
                UNCHANGED <<storeVars, ws, hist>> /\ del[d].pc \in {"idle", "done"}
          /\ storeVars' # storeVars => AcceptedStep \/ crt' # crt]_vars

\* With the queue full, a send was rejected with queue-full; a Window and a
\* DeleteQueue presenting the other queue's token were rejected; all three
\* messages are still stored and listed.
C34_Witness ==
    /\ snd["s1"].pc = "done" /\ snd["s1"].err = "ErrQueueFull"
    /\ rdr["r1"].pc = "done" /\ rdr["r1"].err = "ErrInvalidAccessToken"
    /\ del["d1"].pc = "done" /\ del["d1"].err = "ErrInvalidAccessToken"
    /\ Len(msgList["hA"]) = MaxMessagesInQueue
    /\ Cardinality(msgRec) = MaxMessagesInQueue

\* C35: Window never deletes a message record and never removes from the
\* list an id whose message record exists; a Window interleaved with an
\* Append on the same queue never prunes the newly appended id.
C35_WindowPrunesOnlyDeadIds ==
    [][\A r \in Readers : rdr'[r] # rdr[r] =>
          /\ msgRec' = msgRec
          /\ \A m \in Range(msgList[rdr'[r].q]) \ Range(msgList'[rdr'[r].q]) :
                ~\E x \in msgRec : x.queue = rdr'[r].q /\ x.id = m]_vars

\* A Window has pruned an id; a message appended after the Window read the
\* list is stored and listed.
C35_Witness ==
    /\ rdr["r1"].pc = "done" /\ rdr["r1"].status = 200 /\ rdr["r1"].pruned # {}
    /\ \E m \in Range(msgList["hA"]) \ Range(rdr["r1"].ids) :
          \E x \in msgRec : x.queue = "hA" /\ x.id = m

\* C36: if CreateQueue returns storage-failure, no queue record and no
\* token-index entry written by that call remain in the Store: there is no
\* queue record that accepts Appends but has no token-index entry mapping to
\* it.
C36_FailedCreateLeavesNothing ==
    hist.createStatus = CreateStatus("ErrStore") =>
       \A h \in Handles : queueRec[h] => \E t \in Tokens : tokenIdx[t] = h

\* The live messages of queue h: the listed ids whose record exists.
Live(h) == {m \in Range(msgList[h]) : \E x \in msgRec : x.queue = h /\ x.id = m}

\* C37: Append fails with queue-full only if the queue holds at least
\* MaxMessagesInQueue live messages; ids whose message records have expired
\* do not count.
C37_FullOnlyWhenLiveAtMax ==
    [][\A s \in Senders : EndsWith(snd, s, {"ErrQueueFull"}) =>
          Cardinality(Live(snd[s].q)) >= MaxMessagesInQueue]_vars

(***************************************************************************)
(* The web client.  One step is one event of the socket or one operation   *)
(* on IndexedDB or the relay, with the JavaScript that runs up to the next *)
(* await; the relay appears as the set of ids it holds for the queue.      *)
(***************************************************************************)
serverVars == <<queueRec, tokenIdx, msgList, msgRec, created, nextId, faults,
                wsConnections, rlock, ws, snd, rdr, del, now, expiresAt, queueDue, hist,
                crt, keyDue>>

\* attemptReconnect(): below the maximum it counts the attempt and sets the timer.
AttemptReconnect(w) ==
    IF w.attempts >= MaxReconnectAttempts THEN w
    ELSE [w EXCEPT !.attempts = @ + 1, !.timer = TRUE]

\* The held socket goes away: the relay drops it from the queue's list and the
\* frames in flight on it are lost.
LoseFrames(w) ==
    [w EXCEPT !.relaySub = FALSE,
              !.run = [t \in RunIds |-> IF @[t].pc = "frame" THEN [@[t] EXCEPT !.pc = "none"]
                                        ELSE @[t]]]

\* connectWebSocket calls connect() on the client it has just created.
SockConnect ==
    /\ web.sock = "null" /\ ~web.left
    /\ web' = [web EXCEPT !.sock = "connecting"]
    /\ UNCHANGED serverVars

\* onopen: the attempts are reset and resubscribeAll sends the subscriptions.
SockOpens ==
    /\ web.sock = "connecting"
    /\ web' = [web EXCEPT !.sock = "open", !.attempts = 0]
    /\ UNCHANGED serverVars

\* connectWebSocket subscribes to the conversation's queue once connect() resolved.
Subscribe ==
    /\ web.sock = "open" /\ ~web.left /\ ~web.subs
    /\ web' = [web EXCEPT !.subs = TRUE]
    /\ UNCHANGED serverVars

\* unsubscribeFromQueue: the subscription is dropped and an unsubscribe frame sent.
Unsubscribe ==
    /\ web.subs
    /\ web' = [web EXCEPT !.subs = FALSE]
    /\ UNCHANGED serverVars

\* The relay handles the subscribe or the unsubscribe frame last sent on the
\* held socket.
RelaySubscription ==
    /\ web.sock = "open" /\ web.relaySub # web.subs
    /\ web' = [web EXCEPT !.relaySub = web.subs]
    /\ UNCHANGED serverVars

\* The socket held in this.ws closes (network, relay): onclose runs.
SockDrops ==
    /\ web.sock \in {"connecting", "open"}
    /\ web' = AttemptReconnect(LoseFrames([web EXCEPT !.sock = "closed"]))
    /\ UNCHANGED serverVars

\* The reconnect timer fires: connect() makes a new socket.
TimerFires ==
    /\ web.timer
    /\ web' = [web EXCEPT !.timer = FALSE, !.sock = "connecting"]
    /\ UNCHANGED serverVars

\* disconnect(): clears the timer, closes and drops the socket, clears the
\* subscriptions.  The socket's onclose handler stays in place.
Disconnect ==
    /\ ~web.left /\ web.sock # "null"
    /\ web' = LoseFrames([web EXCEPT !.timer = FALSE, !.sock = "null", !.subs = FALSE,
                                     !.left = TRUE,
                                     !.closing = IF web.sock \in {"connecting", "open"}
                                                 THEN @ + 1 ELSE @])
    /\ UNCHANGED serverVars

\* The close event of a socket that disconnect() closed: its onclose runs.
ClosedSockEvent ==
    /\ web.closing > 0
    /\ web' = AttemptReconnect([web EXCEPT !.closing = @ - 1])
    /\ UNCHANGED serverVars

\* The peer sends the next message, of kind k: SendMessage appends it.
WebSend(m, k) ==
    /\ m = web.sent + 1
    /\ web' = [web EXCEPT !.sent = m, !.relay = @ \cup {m}, !.kind[m] = k,
                          !.run[m].pc = "notify"]
    /\ UNCHANGED serverVars

\* handleSendMessage goes on to notifySubscribers, which writes a frame to the
\* sockets that are in the queue's list by then.
RelayNotifies(m) ==
    /\ web.run[m].pc = "notify"
    /\ web' = [web EXCEPT !.run[m].pc = IF web.relaySub THEN "frame" ELSE "none"]
    /\ UNCHANGED serverVars

\* handleIncomingMessage: without a subscription the frame is dropped; with
\* one, the callback is called and runs to its first await, then the ack
\* frame is sent.
PushArrives(m) ==
    /\ web.run[m].pc = "frame" /\ web.sock = "open"
    /\ web' = IF web.subs
              THEN [web EXCEPT !.run[m].pc = "started", !.acked = @ \cup {m}]
              ELSE [web EXCEPT !.run[m].pc = "none"]
    /\ UNCHANGED serverVars

\* The relay handles the ack frame: DeleteMessage.
RelayAck(m) ==
    /\ m \in web.acked /\ m \in web.relay
    /\ web' = [web EXCEPT !.relay = @ \ {m}]
    /\ UNCHANGED serverVars

\* processWebSocketMessage: getConversation resolves; without the row the
\* function returns.
PushGetConv(m) ==
    /\ web.run[m].pc = "started"
    /\ web' = [web EXCEPT !.run[m].pc = IF web.conv = NoRow THEN "done" ELSE "got"]
    /\ UNCHANGED serverVars

\* The rows of db.messages with serverMessageId m.
RowsOf(w, m) == {k \in w.rows : k.id = m}

\* processWebSocketMessage: the query for a row with this serverMessageId
\* resolves; with such a row the function returns.
PushCheck(m) ==
    /\ web.run[m].pc = "got"
    /\ web' = [web EXCEPT !.run[m].pc = IF RowsOf(web, m) # {} THEN "done" ELSE "checked"]
    /\ UNCHANGED serverVars

\* The message the run t works on: a push works on its own id, the poll on
\* the message of the current iteration.
Cur(w, t) == IF t = Poller THEN w.poll.cur ELSE t

\* The poll's loop passes message x without an await: it does not decrypt, or
\* it is a second connection_accepted of this poll.
Skips(w, x) ==
    \/ w.kind[x] \in {"text", "edit"}
    \/ w.kind[x] = "accepted" /\ w.poll.acc

\* Run t is about to handle message c of kind k: a push whose checks have
\* passed, or the poll's loop, which reaches c when the messages before it are
\* passed without an await.
Ready(t, c, k) ==
    /\ c \in WebIds /\ web.kind[c] = k
    /\ IF t = Poller
       THEN /\ web.run[t].pc = "loop" /\ c \in web.poll.todo
            /\ \A x \in web.poll.todo : x < c => Skips(web, x)
            /\ k = "accepted" => ~web.poll.acc
       ELSE web.run[t].pc = "checked" /\ c = t

\* Run t has started on message c and waits at pc, holding copy.
Begin(w, t, c, pc, copy) ==
    [w EXCEPT !.run[t] = [pc |-> pc, copy |-> copy, row |-> NoKey],
              !.poll = IF t = Poller
                       THEN [@ EXCEPT !.cur = c, !.todo = {x \in @ : x > c},
                                      !.acc = @ \/ w.kind[c] = "accepted"]
                       ELSE @]

\* Run t is through with its message: the poll's loop goes on, a push returns.
ItemEnd(w, t) ==
    [w EXCEPT !.run[t] = [pc |-> IF t = Poller THEN "loop" ELSE "done", copy |-> 0,
                          row |-> NoKey],
              !.poll.cur = IF t = Poller THEN 0 ELSE @]

\* saveMessage returned to run t: the poll's loop goes on, a push goes on to
\* the notification and the receipt.
Saved(w, t) ==
    IF t = Poller THEN ItemEnd(w, t)
    ELSE [w EXCEPT !.run[t] = [pc |-> "saved", copy |-> 0, row |-> NoKey]]

\* db.messages.where('conversationId').equals(id).delete(): every row goes.
Wiped(w) == [w EXCEPT !.rows = {}]

\* The rows held for a put, by a run or by the App.
HeldKeys(w) == w.held \cup {w.run[t].row : t \in {x \in RunIds : w.run[x].pc = "edit"}}

\* generateRandomId(16) for the row run t adds for message c: a key no row has
\* and nobody holds.
NewKey(w, t, c) ==
    IF t = Poller
    THEN [id |-> c,
          n |-> CHOOSE g \in 1..MaxKeys :
                   /\ [id |-> c, n |-> g] \notin w.rows \cup HeldKeys(w)
                   /\ \A f \in 1..(g - 1) : [id |-> c, n |-> f] \in w.rows \cup HeldKeys(w)]
    ELSE [id |-> c, n |-> 0]

\* saveMessage adds a row (db.messages.add) for a text message that decrypts,
\* and for a connection_accepted message whose handler threw: the catch
\* around the control messages takes it for a regular message.
ItemSave(t) ==
    /\ \/ \E c \in WebIds :
             /\ Ready(t, c, "text")
             /\ web' = Begin([web EXCEPT !.rows = @ \cup {NewKey(web, t, c)}], t, c, "added", 0)
       \/ /\ web.run[t].pc = "astext"
          /\ web' = [web EXCEPT !.rows = @ \cup {NewKey(web, t, Cur(web, t))},
                                !.run[t].pc = "added"]
    /\ UNCHANGED serverVars

\* processWebSocketMessage: no identity, no peer key or a decryption error.
PushFail(m) ==
    /\ \E k \in {"text", "edit"} : Ready(m, m, k)
    /\ web' = [web EXCEPT !.run[m].pc = "failed"]
    /\ UNCHANGED serverVars

\* The read of the conversation row in saveMessage, after the add, and in
\* handleConnectionAccepted.  Without the row saveMessage puts nothing and
\* handleConnectionAccepted throws.
TailGet(t) ==
    /\ \/ /\ web.run[t].pc = "added"
          /\ web' = IF web.conv = NoRow THEN Saved(web, t)
                    ELSE [web EXCEPT !.run[t] = [pc |-> "put", copy |-> web.conv]]
       \/ \E c \in WebIds :
             /\ Ready(t, c, "accepted")
             /\ web' = IF web.conv = NoRow THEN Begin(web, t, c, "astext", 0)
                       ELSE Begin(web, t, c, "accept", web.conv)
    /\ UNCHANGED serverVars

\* saveConversation of the row read by TailGet: db.conversations.put.  After
\* it saveMessage returns, and the run is through with a connection_accepted.
TailPut(t) ==
    /\ web.run[t].pc \in {"put", "accept"}
    /\ LET w == [web EXCEPT !.conv = web.run[t].copy]
       IN  web' = IF web.run[t].pc = "put" THEN Saved(w, t) ELSE ItemEnd(w, t)
    /\ UNCHANGED serverVars

\* processWebSocketMessage: after the notification and the receipt, the
\* conversation object read at the start is put back with
\* lastReceivedMessageId = m; when one of them throws, nothing is written.
PushFinish(m) ==
    /\ web.run[m].pc = "saved"
    /\ \/ web' = [web EXCEPT !.run[m].pc = "done", !.conv = m]
       \/ web' = [web EXCEPT !.run[m].pc = "done"]
    /\ UNCHANGED serverVars

\* A conversation_deleted message: the rows of db.messages are deleted.
ItemWipe(t) ==
    /\ \E c \in WebIds :
          /\ Ready(t, c, "deleted")
          /\ web' = Begin(Wiped(web), t, c, "drop", 0)
    /\ UNCHANGED serverVars

\* A conversation_deleted message: after the sessions, db.conversations.delete.
ItemDrop(t) ==
    /\ web.run[t].pc = "drop"
    /\ web' = ItemEnd([web EXCEPT !.conv = NoRow], t)
    /\ UNCHANGED serverVars

\* The message a message_edit or message_delete names: the one sent before it.
Target(c) == c - 1

\* A message_edit or message_delete message: the query for the rows of the
\* message it names resolves; the first row, if any, is held.
EditGet(t) ==
    /\ \E c \in WebIds :
          /\ Ready(t, c, "edit")
          /\ \/ /\ RowsOf(web, Target(c)) = {}
                /\ web' = ItemEnd(Begin(web, t, c, "edit", 0), t)
             \/ \E k \in RowsOf(web, Target(c)) :
                   web' = [Begin(web, t, c, "edit", 0) EXCEPT !.run[t].row = k]
    /\ UNCHANGED serverVars

\* db.messages.put of the row held: a row deleted since it was read is back.
EditPut(t) ==
    /\ web.run[t].pc = "edit"
    /\ web' = ItemEnd([web EXCEPT !.rows = @ \cup {web.run[t].row}], t)
    /\ UNCHANGED serverVars

\* ReceiveMessages as the poll sees it: the ids after `since`, or all of them
\* when `since` is empty or not in the list.
Window(ids, since) == IF since \in ids THEN {x \in ids : x > since} ELSE ids

\* _pollAndDecryptMessages, entered when no poll of the conversation is under
\* way: getConversation resolves, lastReceivedMessageId is the `since`.
PollStart ==
    /\ web.run[Poller].pc = "idle" /\ web.conv # NoRow
    /\ web' = [web EXCEPT !.run[Poller].pc = "started", !.poll.n = web.conv]
    /\ UNCHANGED serverVars

\* pollMessages resolves: an empty list ends the poll; of a non-empty one the
\* last id is kept for the end.
PollFetch ==
    /\ web.run[Poller].pc = "started"
    /\ LET batch == Window(web.relay, web.poll.n)
       IN  web' = IF batch = {}
                  THEN [web EXCEPT !.run[Poller].pc = "idle", !.poll.n = 0]
                  ELSE [web EXCEPT !.run[Poller].pc = "fetched", !.poll.todo = batch,
                                   !.poll.n = CHOOSE x \in batch : \A y \in batch : y <= x]
    /\ UNCHANGED serverVars

\* The read of the saved rows resolves: alreadySavedIds is fixed for the whole
\* loop.
PollSnapshot ==
    /\ web.run[Poller].pc = "fetched"
    /\ web' = [web EXCEPT !.run[Poller].pc = "loop",
                          !.poll.todo = {x \in @ : RowsOf(web, x) = {}}]
    /\ UNCHANGED serverVars

\* The loop is over: getConversation resolves; without the row the poll ends.
PollEndGet ==
    /\ web.run[Poller].pc = "loop"
    /\ \A x \in web.poll.todo : Skips(web, x)
    /\ web' = IF web.conv = NoRow
              THEN [web EXCEPT !.run[Poller].pc = "idle",
                               !.poll = [n |-> 0, todo |-> {}, cur |-> 0, acc |-> FALSE]]
              ELSE [web EXCEPT !.run[Poller].pc = "end", !.poll.todo = {}]
    /\ UNCHANGED serverVars

\* saveConversation of the row read by PollEndGet, with the last id of the
\* batch as lastReceivedMessageId.
PollEndPut ==
    /\ web.run[Poller].pc = "end"
    /\ web' = [web EXCEPT !.run[Poller].pc = "idle", !.conv = web.poll.n,
                          !.poll = [n |-> 0, todo |-> {}, cur |-> 0, acc |-> FALSE]]
    /\ UNCHANGED serverVars

\* deleteConversation: getConversation resolves (without the row it throws);
\* after the notification to the peer the rows of db.messages are deleted;
\* after the sessions, the row of db.conversations.
DeleteConversation ==
    /\ \/ /\ web.del = "idle" /\ web.conv # NoRow
          /\ web' = [web EXCEPT !.del = "checked"]
       \/ /\ web.del = "checked"
          /\ web' = [Wiped(web) EXCEPT !.del = "wiped"]
       \/ /\ web.del = "wiped"
          /\ web' = [web EXCEPT !.del = "idle", !.conv = NoRow]
    /\ UNCHANGED serverVars

\* resetConversationSync: getConversation resolves (without the row it
\* throws), then the row is put back with lastReceivedMessageId undefined.
ResetSync ==
    /\ \/ /\ ~web.reset /\ web.conv # NoRow
          /\ web' = [web EXCEPT !.reset = TRUE]
       \/ /\ web.reset
          /\ web' = [web EXCEPT !.reset = FALSE, !.conv = NoSince]
    /\ UNCHANGED serverVars

\* markConversationAsRead, and saveMessage of a sent message: the
\* conversation row is read and, after an await, put back.
TouchConversation ==
    /\ \/ /\ web.touch = NoRow /\ web.conv # NoRow
          /\ web' = [web EXCEPT !.touch = web.conv]
       \/ /\ web.touch # NoRow
          /\ web' = [web EXCEPT !.touch = NoRow, !.conv = web.touch]
    /\ UNCHANGED serverVars

\* The App marks the received rows it has loaded as read, and editMessage and
\* deleteMessage change a row: rows read before an await are put back one by
\* one, and a row deleted since then is back.
TouchRows ==
    /\ \/ /\ web.held = {}
          /\ \E h \in SUBSET web.rows :
                /\ h # {} /\ Cardinality(h) <= MaxHeld
                /\ web' = [web EXCEPT !.held = h]
       \/ \E k \in web.held :
             web' = [web EXCEPT !.held = @ \ {k}, !.rows = @ \cup {k}]
    /\ UNCHANGED serverVars

\* The socket's life: a client that connects, subscribes, unsubscribes, loses
\* its socket and is disconnected, and a peer that sends text messages.
NextSock ==
    \/ SockConnect \/ SockOpens \/ Subscribe \/ Unsubscribe \/ RelaySubscription
    \/ SockDrops \/ TimerFires \/ Disconnect \/ ClosedSockEvent
    \/ \E m \in WebIds : WebSend(m, "text") \/ RelayNotifies(m) \/ PushArrives(m) \/ RelayAck(m)

SpecSock == Init /\ [][NextSock]_vars

\* The receive paths: a client that connects and subscribes once, a peer that
\* sends messages of the kinds in K, the push and the poll.
ReceivePaths(K) ==
    \/ SockConnect \/ SockOpens \/ Subscribe \/ RelaySubscription
    \/ \E m \in WebIds :
          \/ \E k \in K : WebSend(m, k)
          \/ RelayNotifies(m) \/ PushArrives(m) \/ RelayAck(m)
          \/ PushGetConv(m) \/ PushCheck(m) \/ PushFail(m) \/ PushFinish(m)
    \/ \E t \in RunIds : ItemSave(t) \/ TailGet(t) \/ TailPut(t)
    \/ PollStart \/ PollFetch \/ PollSnapshot \/ PollEndGet \/ PollEndPut

\* Receive workload: messages of every kind, and a user who deletes the
\* conversation.
NextWeb ==
    \/ ReceivePaths(Kinds)
    \/ \E t \in RunIds : ItemWipe(t) \/ ItemDrop(t) \/ EditGet(t) \/ EditPut(t)
    \/ DeleteConversation

SpecWeb == Init /\ [][NextWeb]_vars

\* Sync workload: text messages, and a user who deletes the conversation and
\* resets its sync.
NextSync ==
    \/ ReceivePaths({"text"})
    \/ DeleteConversation \/ ResetSync

SpecSync == Init /\ [][NextSync]_vars

\* App workload: text and conversation_deleted messages, and an App that
\* marks the conversation and its messages as read and sends messages.
NextApp ==
    \/ ReceivePaths({"text", "deleted"})
    \/ \E t \in RunIds : ItemWipe(t) \/ ItemDrop(t)
    \/ TouchConversation \/ TouchRows

SpecApp == Init /\ [][NextApp]_vars

(***************************************************************************)
(* Properties of the web client.                                           *)
(***************************************************************************)

\* C32: the client stores each relay message id at most once as a received
\* message, whatever the interleaving of the polling path and the push path.
C32_StoredAtMostOnce == \A m \in WebIds : Cardinality(RowsOf(web, m)) <= 1

\* C39: an ack frame is sent for a pushed message only after the message is
\* saved locally; a pushed message whose processing failed or has not finished
\* is not acknowledged and is still held by the relay.
C39_AckOnlyAfterSaved ==
    \A m \in WebIds :
        /\ m \in web.acked => RowsOf(web, m) # {}
        /\ (web.run[m].pc \in {"started", "got", "checked", "failed"} /\ RowsOf(web, m) = {})
              => (m \notin web.acked /\ m \in web.relay)

\* C40: once disconnect() has been called the client holds no socket and no
\* pending reconnect timer: it opens no connection on its own.
C40_NoReconnectAfterDisconnect ==
    web.left => (web.sock = "null" /\ ~web.timer)

====
